---- MODULE Spec2Model ----
(***************************************************************************)
(* The in-memory RFC 6265 cookie jar of package cookiejar: Jar, its two    *)
(* storage strategies (flat, boxed), the Cookie predicates and the public  *)
(* suffix matcher.  Go strings are TLA+ strings; the i-th byte of s (from  *)
(* 1) is SubSeq(s, i, i).  time.Time is an integer, 0 is the zero Time.    *)
(***************************************************************************)
EXTENDS Integers, Sequences, FiniteSets, TLC

VARIABLES boxedStorage, HostCookieOnIP, DomainCookiesOnPublicSuffixes,
          MaxBytesPerCookie, content, clock, panicked, nops, last, twin, mutex, run

vars == <<boxedStorage, HostCookieOnIP, DomainCookiesOnPublicSuffixes,
          MaxBytesPerCookie, content, clock, panicked, nops, last, twin, mutex, run>>

(* ------------------------------ bounds -------------------------------- *)

\* number of calls (and clock steps) a behaviour makes
MaxOps == 3

\* length of time.Second in clock units; time.Nanosecond is one unit
Second == 3

\* the longest flat handed to cleanup
MaxLen == 10

\* the most labels of a domain handed to EffectiveTLDPlusOne
MaxLabels == 4

(* ------------------------------ strings ------------------------------- *)

Char(s, i) == SubSeq(s, i, i)

Slice(s, lo, hi) == IF lo > hi THEN "" ELSE SubSeq(s, lo, hi)

HasPrefix(s, p) == Len(s) >= Len(p) /\ Slice(s, 1, Len(p)) = p

HasSuffix(s, p) == Len(s) >= Len(p) /\ Slice(s, Len(s) - Len(p) + 1, Len(s)) = p

\* the least and the greatest number of a set of positions, 0 when empty
Least(S) == IF S = {} THEN 0 ELSE CHOOSE i \in S : \A j \in S : i <= j
Greatest(S) == IF S = {} THEN 0 ELSE CHOOSE i \in S : \A j \in S : i >= j

\* strings.Index(s, c) for a one-byte c, counted from 1; 0 is Go's -1
Index(s, c) == Least({i \in 1..Len(s) : Char(s, i) = c})

\* strings.LastIndex(s, c) for a one-byte c, counted from 1; 0 is Go's -1
LastIndex(s, c) == Greatest({i \in 1..Len(s) : Char(s, i) = c})

UpperLetters == "ABCDEFGHIJKLMNOPQRSTUVWXYZ"
LowerLetters == "abcdefghijklmnopqrstuvwxyz"

UpperSet == {Char(UpperLetters, i) : i \in 1..Len(UpperLetters)}

LowerChar(c) == IF c \in UpperSet THEN Char(LowerLetters, Index(UpperLetters, c)) ELSE c

RECURSIVE ToLower(_)
ToLower(s) == IF s = "" THEN "" ELSE LowerChar(Char(s, 1)) \o ToLower(Slice(s, 2, Len(s)))

RECURSIVE TrimLeft(_, _)
TrimLeft(s, c) == IF s # "" /\ Char(s, 1) = c THEN TrimLeft(Slice(s, 2, Len(s)), c) ELSE s

RECURSIVE TrimRight(_, _)
TrimRight(s, c) ==
    IF s # "" /\ Char(s, Len(s)) = c THEN TrimRight(Slice(s, 1, Len(s) - 1), c) ELSE s

\* strings.Trim(s, c) for a one-byte cutset
Trim(s, c) == TrimRight(TrimLeft(s, c), c)

\* strings.Split(s, "."): always at least one part
RECURSIVE Split(_)
Split(s) ==
    LET i == Index(s, ".") IN
    IF i = 0 THEN <<s>>
    ELSE <<Slice(s, 1, i - 1)>> \o Split(Slice(s, i + 1, Len(s)))

\* strings.Join(parts, ".")
RECURSIVE Join(_)
Join(parts) ==
    IF Len(parts) = 0 THEN ""
    ELSE IF Len(parts) = 1 THEN parts[1]
    ELSE parts[1] \o "." \o Join(Tail(parts))

\* byte order of the characters used in labels
Alphabet == "-.0123456789ABCDEFGHIJKLMNOPQRSTUVWXYZabcdefghijklmnopqrstuvwxyz"

\* the rank of a character in the byte order
Rank == [c \in {Char(Alphabet, i) : i \in 1..Len(Alphabet)} |-> Index(Alphabet, c)]

\* Go's s < t on strings
RECURSIVE StrLess(_, _)
StrLess(s, t) ==
    IF t = "" THEN FALSE
    ELSE IF s = "" THEN TRUE
    ELSE IF Char(s, 1) = Char(t, 1) THEN StrLess(Slice(s, 2, Len(s)), Slice(t, 2, Len(t)))
    ELSE Rank[Char(s, 1)] < Rank[Char(t, 1)]

(* --------------------------- public suffixes --------------------------- *)

\* Rule: the kind of a node of the rule tree
None == "None"
Normal == "Normal"
Exception == "Exception"
Wildcard == "Wildcard"

Node(label, kind, sub) == [Label |-> label, Kind |-> kind, Sub |-> sub]

\* the rule tree: the rules com, *.cy, jp, *.kobe.jp, !city.kobe.jp, uk and
\* co.uk; the Sub of every node is sorted by Label
PublicSuffixes ==
    Node("", None,
         << Node("com", Normal, <<>>),
            Node("cy", Wildcard, <<>>),
            Node("jp", Normal,
                 << Node("kobe", Wildcard, << Node("city", Exception, <<>>) >>) >>),
            Node("uk", Normal, << Node("co", Normal, <<>>) >>) >>)

\* the table of Fibonacci numbers, indexed from 0
fibonacci(k) == << 0, 1, 1, 2, 3, 5, 8, 13, 21 >>[k + 1]

RECURSIVE fibAbove(_, _)
fibAbove(k, N) == IF fibonacci(k) <= N THEN fibAbove(k + 1, N) ELSE k

\* the loop of findLabel; i is a Go index (from 0); the result is the
\* position (from 1) of the node found, 0 for nil
RECURSIVE findLoop(_, _, _, _, _)
findLoop(label, nodes, i, p, q) ==
    IF label = nodes[i + 1].Label THEN i + 1
    ELSE IF StrLess(label, nodes[i + 1].Label)
         THEN IF q = 0 THEN 0 ELSE findLoop(label, nodes, i - q, q, p - q)
         ELSE IF p = 1 THEN 0 ELSE findLoop(label, nodes, i + q, p - q, q - (p - q))

\* findLabel once k is known: the first comparison, then the loop
findFrom(label, nodes, k) ==
    LET N == Len(nodes)
        M == fibonacci(k + 1) - N - 1
        i == fibonacci(k) - 1
        p == fibonacci(k - 1)
        q == fibonacci(k - 2)
    IN  IF StrLess(nodes[i + 1].Label, label)
        THEN IF p = 1 THEN 0
             ELSE findLoop(label, nodes, i - M + q, p - q, q - (p - q))
        ELSE findLoop(label, nodes, i, p, q)

\* findLabel looks up the node with label in nodes (Fibonacci search)
findLabel(label, nodes) ==
    IF Len(nodes) = 0 THEN 0 ELSE findFrom(label, nodes, fibAbove(0, Len(nodes)) - 1)

\* the matching loop of EffectiveTLDPlusOne: m labels are still unmatched,
\* np is the last matching node (kind None while there is none)
RECURSIVE matchLabels(_, _, _, _)

\* one round of the loop: at is what findLabel found for label m
matchRound(parts, m, nodes, np, at) ==
    IF at = 0 THEN [m |-> m, np |-> np]
    ELSE matchLabels(parts, m - 1, nodes[at].Sub, nodes[at])

matchLabels(parts, m, nodes, np) ==
    IF m <= 0 THEN [m |-> m, np |-> np]
    ELSE matchRound(parts, m, nodes, np, findLabel(parts[m], nodes))

\* a result that takes a wildcard rule for a normal one
joinFromAsNormal(domain, parts, r) ==
    LET n == Len(parts)
        m == IF r.np.Kind \in {Normal, Wildcard} THEN r.m - 1 ELSE r.m
    IN  IF r.np.Kind = None
        THEN IF n = 2 THEN domain
             ELSE IF n > 2 THEN parts[n - 1] \o "." \o parts[n]
             ELSE ""
        ELSE IF m < 0 THEN "" ELSE Join(SubSeq(parts, m + 1, n))

\* the result of EffectiveTLDPlusOne after the loop stopped at r
joinFrom(domain, parts, r) ==
    LET n == Len(parts)
        m == CASE r.np.Kind = Normal   -> r.m - 1
               [] r.np.Kind = Wildcard -> r.m - 2
               [] OTHER                -> r.m
    IN  IF r.np.Kind = None
        THEN IF n = 2 THEN domain
             ELSE IF n > 2 THEN parts[n - 1] \o "." \o parts[n]
             ELSE ""
        ELSE IF m < 0 THEN "" ELSE Join(SubSeq(parts, m + 1, n))

\* EffectiveTLDPlusOne for the labels parts of domain
plusOneOf(domain, parts) ==
    joinFrom(domain, parts, matchLabels(parts, Len(parts), PublicSuffixes.Sub, PublicSuffixes))

\* EffectiveTLDPlusOne retrieves the public suffix plus one label of domain,
\* "" when domain is too short
EffectiveTLDPlusOne(domain) == plusOneOf(domain, Split(domain))

\* allowDomainCookies: domain is specific enough to own a domain cookie
allowDomainCookies(domain) == EffectiveTLDPlusOne(domain) # ""

(* ------------------------------- Cookie -------------------------------- *)

\* Cookie: the zero value, as made by &Cookie{}
EmptyCookie ==
    [Name |-> "", Value |-> "", Domain |-> "", Path |-> "", Expires |-> 0,
     Secure |-> FALSE, HostOnly |-> FALSE, HttpOnly |-> FALSE,
     Created |-> 0, LastAccess |-> 0]

\* Session: c has a zero Expires
Session(c) == c.Expires = 0

\* Expired at time now
Expired(c, now) == ~Session(c) /\ c.Expires < now

secureEnough(cookieIsSecure, requestIsSecure) == requestIsSecure \/ ~cookieIsSecure

\* a domain match that takes no notice of HostOnly
domainMatchAnyCookie(c, host) == c.Domain = host \/ HasSuffix(host, "." \o c.Domain)

\* Cookie.domainMatch
domainMatch(c, host) ==
    IF c.Domain = host THEN TRUE
    ELSE ~c.HostOnly /\ HasSuffix(host, "." \o c.Domain)

\* pathMatch reads c.Path[len(c.Path)-1] once the prefix test has passed
pathMatchPanics(c, requestPath) ==
    requestPath # c.Path /\ HasPrefix(requestPath, c.Path) /\ Len(c.Path) = 0

\* a path match that asks for a prefix only
pathMatchPrefix(c, requestPath) == HasPrefix(requestPath, c.Path)

\* Cookie.pathMatch
pathMatch(c, requestPath) ==
    IF requestPath = c.Path THEN TRUE
    ELSE IF HasPrefix(requestPath, c.Path)
         THEN IF Char(c.Path, Len(c.Path)) = "/" THEN TRUE
              ELSE Char(requestPath, Len(c.Path) + 1) = "/"
         ELSE FALSE

shouldSend(c, https, host, path) ==
    domainMatch(c, host) /\ pathMatch(c, path) /\ secureEnough(c.Secure, https)

\* the && chain of shouldSend reaches the failing index of pathMatch
shouldSendPanics(c, host, path) == domainMatch(c, host) /\ pathMatchPanics(c, path)

\* an order with the shorter paths first
LessShorter(a, b) ==
    IF Len(a.Path) = Len(b.Path) THEN a.Created < b.Created
    ELSE Len(a.Path) < Len(b.Path)

\* sendList.Less
Less(a, b) ==
    IF Len(a.Path) = Len(b.Path) THEN a.Created < b.Created
    ELSE Len(a.Path) > Len(b.Path)

\* sort.Sort of a short sendList l of pointers into f: insertion sort, which
\* moves l[j] down while Less(j, j-1)
RECURSIVE sinkDown(_, _, _)
sinkDown(f, l, j) ==
    IF j > 1 /\ Less(f[l[j]], f[l[j - 1]])
    THEN sinkDown(f, [l EXCEPT ![j] = l[j - 1], ![j - 1] = l[j]], j - 1)
    ELSE l

RECURSIVE sortFrom(_, _, _)
sortFrom(f, l, i) == IF i > Len(l) THEN l ELSE sortFrom(f, sinkDown(f, l, i), i + 1)

Sort(f, l) == sortFrom(f, l, 2)

(* -------------------------------- flat --------------------------------- *)

\* the compaction threshold of flat.retrieve
CleanupThreshold == 10

\* first loop of cleanup: find next expired; i, j are Go indices
RECURSIVE nextExpired(_, _, _, _, _)
nextExpired(f, p, i, j, now) ==
    IF i < j /\ ~Expired(f[p[i + 1]], now) THEN nextExpired(f, p, i + 1, j, now) ELSE i

\* second loop of cleanup: find non expired from back
RECURSIVE lastLive(_, _, _, _, _, _)
lastLive(f, p, i, j, n, now) ==
    IF j > i /\ Expired(f[p[j + 1]], now) THEN lastLive(f, p, i, j - 1, n + 1, now)
    ELSE [j |-> j, n |-> n]

\* the outer loop of cleanup on the slice p of pointers into f
RECURSIVE cleanupLoop(_, _, _, _, _, _, _)
cleanupLoop(f, p, i, j, n, num, now) ==
    IF ~(n < num) THEN SubSeq(p, 1, j)
    ELSE LET i1 == nextExpired(f, p, i, j, now) IN
         IF i1 = j - 1 THEN SubSeq(p, 1, j - 1)
         ELSE LET b == lastLive(f, p, i1, j - 1, n, now) IN
              IF i1 = b.j \/ b.n = num THEN SubSeq(p, 1, b.j)
              ELSE cleanupLoop(f, [p EXCEPT ![i1 + 1] = p[b.j + 1]],
                               i1 + 1, b.j, b.n + 1, num, now)

\* the slice of pointers to all of a flat of length n: 1, ..., n
RECURSIVE Pointers(_)
Pointers(n) == IF n = 0 THEN <<>> ELSE Append(Pointers(n - 1), n)

\* a cleanup that cuts num slots off the end
cleanupTail(f, num, now) == Pointers(Len(f) - num)

\* cleanup removes num expired cookies; the slice holds pointers, here the
\* positions in f, and the result is the slice of pointers that is left
cleanup(f, num, now) ==
    LET p == Pointers(Len(f)) IN
    IF num = 0 THEN p
    ELSE IF num = Len(f) THEN <<>>
    ELSE cleanupLoop(f, p, 0, Len(f), 0, num, now)

\* the numbers of S in increasing order
RECURSIVE Ascending(_)
Ascending(S) ==
    IF S = {} THEN <<>>
    ELSE LET m == CHOOSE x \in S : \A y \in S : x <= y IN <<m>> \o Ascending(S \ {m})

\* flat.retrieve: sel are the pointers selected, ptrs the slice afterwards
flatRetrieve(f, now, https, host, path) ==
    LET live(c) == ~Expired(c, now)
        send(c) == live(c) /\ shouldSend(c, https, host, path)
        expired == Cardinality({k \in 1..Len(f) : ~live(f[k])})
    IN  IF \E k \in 1..Len(f) : live(f[k]) /\ shouldSendPanics(f[k], host, path)
        THEN [panic |-> TRUE, sel |-> <<>>, ptrs |-> Pointers(Len(f))]
        ELSE [panic |-> FALSE,
              sel   |-> Ascending({k \in 1..Len(f) : send(f[k])}),
              ptrs  |-> IF expired > CleanupThreshold /\ expired > (Len(f) \div 5)
                        THEN cleanup(f, expired, now)
                        ELSE Pointers(Len(f))]

SameTriple(c, domain, path, name) ==
    domain = c.Domain /\ path = c.Path /\ name = c.Name

\* a find that never looks for the triple
flatFindFresh(f, now, domain, path, name) ==
    [f |-> Append(f, EmptyCookie), at |-> Len(f) + 1]

\* a find that hands out the expired cookie with its name
flatFindNamed(f, now, domain, path, name) ==
    LET same(c) == SameTriple(c, domain, path, name)
        dead(c) == Expired(c, now)
        found      == Least({k \in 1..Len(f) : same(f[k])})
        expiredIdx == Least({k \in 1..Len(f) : dead(f[k])})
    IN  IF found # 0 THEN [f |-> f, at |-> found]
        ELSE IF expiredIdx # 0 THEN [f |-> f, at |-> expiredIdx]
        ELSE [f |-> Append(f, EmptyCookie), at |-> Len(f) + 1]

\* flat.find: at is the position of the cookie returned
flatFind(f, now, domain, path, name) ==
    LET same(c) == SameTriple(c, domain, path, name)
        dead(c) == Expired(c, now)
        found      == Least({k \in 1..Len(f) : same(f[k])})
        expiredIdx == Least({k \in 1..Len(f) : dead(f[k])})
    IN  IF found # 0 THEN [f |-> f, at |-> found]
        ELSE IF expiredIdx # 0
             THEN [f |-> [f EXCEPT ![expiredIdx].Name = ""], at |-> expiredIdx]
             ELSE [f |-> Append(f, EmptyCookie), at |-> Len(f) + 1]

\* a delete that cuts the flat without moving the last cookie into the gap
flatDeleteLast(f, domain, path, name) ==
    IF \E k \in 1..Len(f) : SameTriple(f[k], domain, path, name)
    THEN [f |-> SubSeq(f, 1, Len(f) - 1), existed |-> TRUE]
    ELSE [f |-> f, existed |-> FALSE]

\* flat.delete
flatDelete(f, domain, path, name) ==
    LET same(c) == SameTriple(c, domain, path, name)
        i == Least({k \in 1..Len(f) : same(f[k])})
        n == Len(f)
    IN  IF i = 0 THEN [f |-> f, existed |-> FALSE]
        ELSE [f |-> SubSeq(IF i < n THEN [f EXCEPT ![i] = f[n]] ELSE f, 1, n - 1),
              existed |-> TRUE]

(* -------------------------------- boxed -------------------------------- *)

\* box, or host when box is empty
boxOr(box, host) == IF box = "" THEN host ELSE box

\* the key of the box of host: its effective TLD plus one, else host itself
boxKey(host) == boxOr(EffectiveTLDPlusOne(host), host)

\* boxed.flat returns a flat other than nil for the box key
hasFlat(b, key) == key \in DOMAIN b

\* (*b)[box] = &f
putFlat(b, key, f) == (key :> f) @@ b

\* an empty map, as made by make(boxed)
EmptyBoxed == [k \in {} |-> <<>>]

(* ------------------------------- storage ------------------------------- *)
(* The three methods of the storage interface for both implementations:    *)
(* boxed says which one jar.content holds.  A pointer to a stored cookie   *)
(* is the pair of key (the box, "" for flat storage) and position at.      *)

\* the flat a pointer with this key points into
flatOf(boxed, store, key) == IF boxed THEN store[key] ELSE store

\* store after the flat under key was replaced by f
withFlat(boxed, store, key, f) == IF boxed THEN putFlat(store, key, f) ELSE f

\* the key of the flat that holds the cookies of host: "" for flat storage
keyOf(boxed, host) == IF boxed THEN boxKey(host) ELSE ""

\* what retrieve returns when flat.retrieve on the flat under key returned r
retrieved(key, r) ==
    [hit |-> TRUE, key |-> key, panic |-> r.panic, sel |-> r.sel, ptrs |-> r.ptrs]

\* retrieve from the flat under key
retrieveIn(boxed, store, key, now, https, host, path) ==
    IF boxed /\ ~hasFlat(store, key)
    THEN [hit |-> FALSE, key |-> "", panic |-> FALSE, sel |-> <<>>, ptrs |-> <<>>]
    ELSE retrieved(key, flatRetrieve(flatOf(boxed, store, key), now, https, host, path))

\* retrieve: hit says that a flat was searched, key which one
retrieve(boxed, store, now, https, host, path) ==
    retrieveIn(boxed, store, keyOf(boxed, host), now, https, host, path)

\* what find returns when flat.find on the flat under key returned r
found(boxed, store, key, r) ==
    [store |-> withFlat(boxed, store, key, r.f), key |-> key, at |-> r.at]

\* find in the flat under key; boxed.find makes the flat when there is none
findIn(boxed, store, key, now, domain, path, name) ==
    IF boxed /\ ~hasFlat(store, key)
    THEN [store |-> putFlat(store, key, <<EmptyCookie>>), key |-> key, at |-> 1]
    ELSE found(boxed, store, key,
               flatFind(flatOf(boxed, store, key), now, domain, path, name))

\* find: the cookie returned is at position at of the flat under key
find(boxed, store, now, domain, path, name) ==
    findIn(boxed, store, keyOf(boxed, domain), now, domain, path, name)

\* what delete returns when flat.delete on the flat under key returned r
deleted(boxed, store, key, r) ==
    [store |-> withFlat(boxed, store, key, r.f), existed |-> r.existed]

\* delete from the flat under key
deleteIn(boxed, store, key, domain, path, name) ==
    IF boxed /\ ~hasFlat(store, key)
    THEN [store |-> store, existed |-> FALSE]
    ELSE deleted(boxed, store, key,
                 flatDelete(flatOf(boxed, store, key), domain, path, name))

\* delete
delete(boxed, store, domain, path, name) ==
    deleteIn(boxed, store, keyOf(boxed, domain), domain, path, name)

\* the cookie a pointer points to
cookieAt(boxed, store, key, at) == flatOf(boxed, store, key)[at]

\* *pointer = c
setCookieAt(boxed, store, key, at, c) ==
    withFlat(boxed, store, key, [flatOf(boxed, store, key) EXCEPT ![at] = c])

\* every flat of the store
Flats(boxed, store) == IF boxed THEN {store[k] : k \in DOMAIN store} ELSE {store}

\* every stored record, expired ones included
Stored(boxed, store) == UNION {{f[k] : k \in 1..Len(f)} : f \in Flats(boxed, store)}

\* the number of slots of the store
Slots(boxed, store) ==
    IF boxed
    THEN LET RECURSIVE sum(_)
             sum(K) == IF K = {} THEN 0
                       ELSE LET k == CHOOSE x \in K : TRUE
                            IN  Len(store[k]) + sum(K \ {k})
         IN  sum(DOMAIN store)
    ELSE Len(store)

(* --------------------------------- Jar --------------------------------- *)

\* updateAction
invalidCookie == "invalidCookie"
createCookie == "createCookie"
updateCookie == "updateCookie"
deleteCookie == "deleteCookie"
noSuchCookie == "noSuchCookie"

\* errors of domainAndType; "" is nil
errNoHostname == "errNoHostname"
errMalformedDomain == "errMalformedDomain"
errTLDDomainCookie == "errTLDDomainCookie"
errIllegalPSDomain == "errIllegalPSDomain"
errBadDomain == "errBadDomain"

\* net.SplitHostPort of a host that holds a ":" (no IPv6 literal): "" is the
\* error of more than one colon
splitHost(h) ==
    IF Index(h, ":") # LastIndex(h, ":") THEN "" ELSE Slice(h, 1, Index(h, ":") - 1)

hostFails(u) ==
    LET h == ToLower(u.Host)
        g == IF HasSuffix(h, ".") THEN Slice(h, 1, Len(h) - 1) ELSE h
    IN  Index(g, ":") # 0 /\ Index(g, ":") # LastIndex(g, ":")

\* host returns the canonical host of u
host(u) ==
    LET h == ToLower(u.Host)
        g == IF HasSuffix(h, ".") THEN Slice(h, 1, Len(h) - 1) ELSE h
    IN  IF Index(g, ":") # 0 THEN splitHost(g) ELSE g

isSecure(u) == ToLower(u.Scheme) = "https"

\* a jar for every scheme
isAnyScheme(u) == TRUE

isHTTP(u) == ToLower(u.Scheme) = "http" \/ ToLower(u.Scheme) = "https"

Digits == "0123456789"

\* the value of a string of digits
RECURSIVE Atoi(_)
Atoi(s) ==
    IF s = "" THEN 0
    ELSE 10 * Atoi(Slice(s, 1, Len(s) - 1)) + (Index(Digits, Char(s, Len(s))) - 1)

\* isIP: net.ParseIP accepts h as a dotted quad and prints it the same way
isIP(h) ==
    LET parts == Split(h)
        octet(s) == /\ Len(s) \in 1..3
                    /\ \A i \in 1..Len(s) : Index(Digits, Char(s, i)) # 0
                    /\ Atoi(s) <= 255
                    /\ (Len(s) > 1 => Char(s, 1) # "0")
    IN  Len(parts) = 4 /\ \A k \in 1..4 : octet(parts[k])

\* a default path that keeps the last slash
defaultPathSlash(u) ==
    LET path == u.Path
        i    == LastIndex(path, "/")
    IN  IF Len(path) = 0 \/ Char(path, 1) # "/" THEN "/"
        ELSE Slice(path, 1, i)

defaultPath(u) ==
    LET path == u.Path
        i    == LastIndex(path, "/")
    IN  IF Len(path) = 0 \/ Char(path, 1) # "/" THEN "/"
        ELSE IF i = 1 THEN "/"
        ELSE Slice(path, 1, i - 1)

\* a resolution that accepts whatever domain the attribute names
domainAndTypeUnchecked(onIP, onPS, hst, domainAttr) ==
    [domain   |-> IF domainAttr = "" THEN hst ELSE ToLower(TrimLeft(domainAttr, ".")),
     hostOnly |-> domainAttr = "",
     err      |-> ""]

\* a resolution that lets an IP address name itself whatever the flag says
domainAndTypeAnyIP(onIP, onPS, hst, domainAttr) ==
    IF domainAttr = "" \/ (isIP(hst) /\ domainAttr = hst)
    THEN [domain |-> hst, hostOnly |-> TRUE, err |-> ""]
    ELSE [domain |-> "", hostOnly |-> FALSE, err |-> errNoHostname]

\* domainAndType determines Domain and HostOnly of a cookie with the domain
\* attribute domainAttr received from host
domainAndType(onIP, onPS, hst, domainAttr) ==
    LET stripped == IF Char(domainAttr, 1) = "." THEN Slice(domainAttr, 2, Len(domainAttr))
                    ELSE domainAttr
        domain   == ToLower(stripped)
        reject(e) == [domain |-> "", hostOnly |-> FALSE, err |-> e]
    IN  IF domainAttr = "" THEN [domain |-> hst, hostOnly |-> TRUE, err |-> ""]
        ELSE IF isIP(hst)
        THEN IF onIP /\ domainAttr = hst
             THEN [domain |-> hst, hostOnly |-> TRUE, err |-> ""]
             ELSE reject(errNoHostname)
        ELSE IF Len(stripped) = 0 \/ Char(stripped, 1) = "." THEN reject(errMalformedDomain)
        ELSE IF Char(domain, Len(domain)) = "." THEN reject(errMalformedDomain)
        ELSE IF Index(domain, ".") = 0 THEN reject(errTLDDomainCookie)
        ELSE IF ~onPS /\ ~allowDomainCookies(domain)
        THEN IF hst = domainAttr
             THEN [domain |-> hst, hostOnly |-> TRUE, err |-> ""]
             ELSE reject(errIllegalPSDomain)
        ELSE IF hst # domain /\ ~HasSuffix(hst, "." \o domain) THEN reject(errBadDomain)
        ELSE [domain |-> domain, hostOnly |-> FALSE, err |-> ""]

\* the configuration of a jar: the storage chosen by NewJar and the
\* exported fields
Config(boxed, onIP, onPS, maxBytes) ==
    [boxed |-> boxed, onIP |-> onIP, onPS |-> onPS, maxBytes |-> maxBytes]

\* the Path stored for a received cookie
cookiePath(defaultpath, recieved) ==
    IF recieved.Path = "" \/ Char(recieved.Path, 1) # "/" THEN defaultpath
    ELSE recieved.Path

\* a deletion check in which Expires takes precedence over MaxAge
deleteRequestExpiresFirst(recieved, now) ==
    IF recieved.Expires # 0 THEN recieved.Expires < now ELSE recieved.MaxAge < 0

\* deletion and expiration of a received cookie: MaxAge takes precedence
deleteRequest(recieved, now) ==
    IF recieved.MaxAge < 0 THEN TRUE
    ELSE IF recieved.MaxAge > 0 THEN FALSE
    ELSE recieved.Expires # 0 /\ recieved.Expires < now

expiresOf(recieved, now) ==
    IF recieved.MaxAge < 0 THEN 0
    ELSE IF recieved.MaxAge > 0 THEN now + recieved.MaxAge * Second
    ELSE IF recieved.Expires # 0 /\ ~(recieved.Expires < now) THEN recieved.Expires
    ELSE 0

\* a rejection that empties the jar
rejectedClears(cfg, store) ==
    [store |-> IF cfg.boxed THEN EmptyBoxed ELSE <<>>, action |-> invalidCookie]

\* update returns early when domainAndType fails: nothing is stored
rejected(cfg, store) == [store |-> store, action |-> invalidCookie]

\* an update that never clears Secure
writtenKeepsSecure(old, now, dt, path, recieved) ==
    IF Len(old.Name) = 0
    THEN [Name |-> recieved.Name, Value |-> recieved.Value,
          Domain |-> dt.domain, Path |-> path,
          Expires |-> expiresOf(recieved, now), Secure |-> recieved.Secure,
          HostOnly |-> dt.hostOnly, HttpOnly |-> recieved.HttpOnly,
          Created |-> now, LastAccess |-> now]
    ELSE [old EXCEPT !.HostOnly = dt.hostOnly, !.Value = recieved.Value,
                     !.HttpOnly = recieved.HttpOnly,
                     !.Expires = expiresOf(recieved, now),
                     !.Secure = old.Secure \/ recieved.Secure, !.LastAccess = now]

\* the record update leaves where find pointed: all fields of a new cookie
\* (old has no Name), the mutable fields of an old one
written(old, now, dt, path, recieved) ==
    IF Len(old.Name) = 0
    THEN [Name |-> recieved.Name, Value |-> recieved.Value,
          Domain |-> dt.domain, Path |-> path,
          Expires |-> expiresOf(recieved, now), Secure |-> recieved.Secure,
          HostOnly |-> dt.hostOnly, HttpOnly |-> recieved.HttpOnly,
          Created |-> now, LastAccess |-> now]
    ELSE [old EXCEPT !.HostOnly = dt.hostOnly, !.Value = recieved.Value,
                     !.HttpOnly = recieved.HttpOnly,
                     !.Expires = expiresOf(recieved, now),
                     !.Secure = recieved.Secure, !.LastAccess = now]

\* the second half of update: fd is what find returned
storeAt(cfg, fd, now, dt, path, recieved) ==
    LET old == cookieAt(cfg.boxed, fd.store, fd.key, fd.at) IN
    [store  |-> setCookieAt(cfg.boxed, fd.store, fd.key, fd.at,
                            written(old, now, dt, path, recieved)),
     action |-> IF Len(old.Name) = 0 THEN createCookie ELSE updateCookie]

\* the deletion of update: d is what delete returned
removed(d) ==
    [store |-> d.store, action |-> IF d.existed THEN deleteCookie ELSE noSuchCookie]

\* update once domainAndType returned dt and the path is known
updateWith(cfg, store, now, dt, path, recieved) ==
    IF dt.err # "" THEN rejected(cfg, store)
    ELSE IF deleteRequest(recieved, now)
    THEN removed(delete(cfg.boxed, store, dt.domain, path, recieved.Name))
    ELSE storeAt(cfg, find(cfg.boxed, store, now, dt.domain, path, recieved.Name),
                 now, dt, path, recieved)

\* update stores, updates or deletes the received cookie
update(cfg, store, now, hst, defaultpath, recieved) ==
    updateWith(cfg, store, now,
               domainAndType(cfg.onIP, cfg.onPS, hst, recieved.Domain),
               cookiePath(defaultpath, recieved), recieved)

\* a limit that a cookie of exactly that many bytes is over
tooBigAtLimit(cfg, cookie) ==
    cfg.maxBytes > 0 /\ Len(cookie.Name) + Len(cookie.Value) >= cfg.maxBytes

\* the cookie is over the limit of MaxBytesPerCookie
tooBig(cfg, cookie) ==
    cfg.maxBytes > 0 /\ Len(cookie.Name) + Len(cookie.Value) > cfg.maxBytes

\* the jar and the actions after one more cookie: r is what update returned
noted(acc, r) == [store |-> r.store, acts |-> Append(acc.acts, r.action)]

\* the loop of SetCookies from cookie k on; acc.acts collects what update
\* returned, "" for a cookie that was skipped
RECURSIVE setLoop(_, _, _, _, _, _, _)
setLoop(cfg, acc, now, hst, defaultpath, cookies, k) ==
    IF k > Len(cookies) THEN acc
    ELSE setLoop(cfg,
                 noted(acc, IF tooBig(cfg, cookies[k])
                            THEN [store |-> acc.store, action |-> ""]
                            ELSE update(cfg, acc.store, now, hst, defaultpath, cookies[k])),
                 now, hst, defaultpath, cookies, k + 1)

\* Jar.SetCookies
jarSetCookies(cfg, store, now, u, cookies) ==
    IF ~isHTTP(u) \/ hostFails(u) THEN [store |-> store, acts |-> <<>>]
    ELSE setLoop(cfg, [store |-> store, acts |-> <<>>], now, host(u), defaultPath(u),
                 cookies, 1)

\* every cookie of the flat gets a new LastAccess
touchAll(f, l, k, now) == [i \in 1..Len(f) |-> [f[i] EXCEPT !.LastAccess = now + (i - 1)]]

\* every cookie of the sendList gets the same LastAccess
RECURSIVE touchSame(_, _, _, _)
touchSame(f, l, k, now) ==
    IF k > Len(l) THEN f
    ELSE touchSame([f EXCEPT ![l[k]].LastAccess = now], l, k + 1, now)

\* the flat after the k-th cookie of the sendList l (k from 1) got
\* LastAccess now + (k - 1) nanoseconds
RECURSIVE touch(_, _, _, _)
touch(f, l, k, now) ==
    IF k > Len(l) THEN f
    ELSE touch([f EXCEPT ![l[k]].LastAccess = now + (k - 1)], l, k + 1, now)

\* the cookies the pointers of l point to
RECURSIVE deref(_, _)
deref(f, l) == IF Len(l) = 0 THEN <<>> ELSE <<f[Head(l)]>> \o deref(f, Tail(l))

\* Jar.Cookies: sent are the stored cookies chosen, in the order returned
jarCookies(cfg, store, now, u) ==
    LET path == IF u.Path = "" THEN "/" ELSE u.Path
        r    == retrieve(cfg.boxed, store, now, isSecure(u), host(u), path)
        f    == flatOf(cfg.boxed, store, r.key)
        l    == Sort(f, r.sel)
        g    == touch(f, l, 1, now)
    IN  IF ~isHTTP(u) \/ hostFails(u) \/ ~r.hit
        THEN [store |-> store, sent |-> <<>>, panic |-> FALSE]
        ELSE IF r.panic THEN [store |-> store, sent |-> <<>>, panic |-> TRUE]
        ELSE [store |-> withFlat(cfg.boxed, store, r.key, deref(g, r.ptrs)),
              sent  |-> deref(g, l), panic |-> FALSE]

\* the http.Cookie made from a cookie that is sent
httpCookie(c) == [Name |-> c.Name, Value |-> c.Value]

\* an Add that stamps the cookie it stores
addOneStamped(cfg, store, now, c) ==
    LET fd == find(cfg.boxed, store, now, c.Domain, c.Path, c.Name) IN
    IF Expired(c, now) THEN store
    ELSE setCookieAt(cfg.boxed, fd.store, fd.key, fd.at, [c EXCEPT !.LastAccess = now])

\* Jar.Add of one cookie
addOne(cfg, store, now, c) ==
    LET fd == find(cfg.boxed, store, now, c.Domain, c.Path, c.Name) IN
    IF Expired(c, now) THEN store
    ELSE setCookieAt(cfg.boxed, fd.store, fd.key, fd.at, c)

\* Jar.Add, from cookie k on (counting the slots makes TLC evaluate the store
\* of every round before the next one, it is never negative)
RECURSIVE jarAdd(_, _, _, _, _)
jarAdd(cfg, store, now, cookies, k) ==
    IF k > Len(cookies) \/ Slots(cfg.boxed, store) < 0 THEN store
    ELSE jarAdd(cfg, addOne(cfg, store, now, cookies[k]), now, cookies, k + 1)

\* a Remove that looks for the domain as it is written
jarRemoveAsWritten(cfg, store, domain, path, name) ==
    delete(cfg.boxed, store, domain, path, name)

\* Jar.Remove
jarRemove(cfg, store, domain, path, name) ==
    delete(cfg.boxed, store, Trim(ToLower(domain), "."), path, name)

\* Jar.All, as the set of the copies returned
All(boxed, store, now) == {c \in Stored(boxed, store) : ~Expired(c, now)}

(* ------------------------------- inputs -------------------------------- *)

\* MaxBytesPerCookie as set by NewJar
DefaultMaxBytesPerCookie == 4096

\* the clock when the jar is made; every time before it is in the past
StartTime == Second

\* an Expires attribute that is in the future until the clock steps once
Soon == StartTime + 1

URL(scheme, hst, path) == [Scheme |-> scheme, Host |-> hst, Path |-> path]

\* a received http.Cookie
Recv(name, value, domain, path, expires, maxAge, secure, httpOnly) ==
    [Name |-> name, Value |-> value, Domain |-> domain, Path |-> path,
     Expires |-> expires, MaxAge |-> maxAge, Secure |-> secure, HttpOnly |-> httpOnly]

\* a Cookie handed to Add
Given(name, value, domain, path, expires, secure, hostOnly) ==
    [Name |-> name, Value |-> value, Domain |-> domain, Path |-> path,
     Expires |-> expires, Secure |-> secure, HostOnly |-> hostOnly,
     HttpOnly |-> FALSE, Created |-> 1, LastAccess |-> 1]

Call(u, cookies) == [url |-> u, cookies |-> cookies]

\* the calls of SetCookies: request URL and received cookies
SetCalls ==
    { \* a host cookie with the default path /a
      Call(URL("http", "w.b.co.uk", "/a/c"),
           << Recv("a", "1", "", "", 0, 0, FALSE, FALSE) >>),
      \* the same cookie again over https, host written differently
      Call(URL("https", "W.B.co.uk.", "/"),
           << Recv("a", "2", "", "/a", 0, 0, TRUE, TRUE) >>),
      \* a domain cookie, a malformed domain, a second domain cookie
      Call(URL("http", "w.b.co.uk", "/a/c"),
           << Recv("b", "1", ".B.CO.UK", "/a/b", 0, 0, FALSE, FALSE),
              Recv("d", "1", "w.b.co.uk.", "", 0, 0, FALSE, FALSE),
              Recv("b", "2", "b.co.uk", "", 0, 1, FALSE, FALSE) >>),
      \* a domain cookie of the host itself, soon to expire
      Call(URL("http", "b.co.uk", "/"),
           << Recv("b", "3", "b.co.uk", "/a/b", Soon, 0, FALSE, FALSE) >>),
      \* a cookie for a public suffix from a host below it
      Call(URL("http", "w.b.co.uk", "/a/c"),
           << Recv("c", "1", "co.uk", "/", 0, 0, TRUE, FALSE) >>),
      \* cookies for a public suffix that is the host, and for a TLD
      Call(URL("http", "co.uk", "/"),
           << Recv("c", "2", "co.uk", "", 0, 0, FALSE, FALSE),
              Recv("c", "3", ".co.uk", "/a", 0, 0, FALSE, FALSE),
              Recv("d", "1", "uk", "", 0, 0, FALSE, FALSE) >>),
      \* deletions by MaxAge and by Expires
      Call(URL("http", "w.b.co.uk", "/a/c"),
           << Recv("a", "", "", "", Soon, 0 - 1, FALSE, FALSE),
              Recv("b", "", "b.co.uk", "/a/b", 1, 0, FALSE, FALSE) >>),
      \* another site: its own domain cookie and two for a foreign domain
      Call(URL("http", "x.com:80", "/a/c"),
           << Recv("b", "", "b.co.uk", "", 0, 0 - 1, FALSE, FALSE),
              Recv("x", "1", "x.com", "", 0, 2, FALSE, FALSE),
              Recv("a", "9", "w.b.co.uk", "", 0, 0, FALSE, FALSE) >>),
      \* an IP address as host; the last cookie expires at this very moment
      \* when the call is the first one
      Call(URL("http", "1.2.3.4", "/"),
           << Recv("i", "1", "", "", 0, 0, FALSE, FALSE),
              Recv("i", "2", "1.2.3.4", "/a", 0, 0, FALSE, FALSE),
              Recv("n", "1", "", "/a", StartTime, 0, FALSE, FALSE),
              Recv("i", "3", ".1.2.3.4", "/", 0, 0, FALSE, FALSE),
              Recv("i", "4", "2.3.4", "/", 0, 0, FALSE, FALSE) >>),
      \* a cookie without a name
      Call(URL("http", "w.b.co.uk", "/a/c"),
           << Recv("", "1", "", "", 0, 0, FALSE, FALSE) >>),
      \* MaxAge and an Expires that is in the past
      Call(URL("http", "w.b.co.uk", "/a/c"),
           << Recv("m", "1", "", "/m", 1, 1, FALSE, FALSE) >>),
      \* not HTTP
      Call(URL("ftp", "w.b.co.uk", "/"),
           << Recv("a", "1", "", "", 0, 0, FALSE, FALSE) >>) }

\* the calls of Cookies
GetCalls ==
    { URL("http", "w.b.co.uk", "/a/b/c"),
      URL("https", "w.b.co.uk", "/a/b/c"),
      URL("http", "v.w.b.co.uk", "/a/b"),
      URL("http", "b.co.uk", ""),
      URL("https", "co.uk", "/a"),
      URL("http", "x.com", "/ab"),
      URL("http", "1.2.3.4", "/a"),
      URL("ftp", "w.b.co.uk", "/a") }

\* eleven cookies that expire soon below a path no request of GetCalls has,
\* and two that stay
Junk ==
    << Given("f0", "", "b.co.uk", "/z", Soon, FALSE, FALSE),
       Given("f1", "", "b.co.uk", "/z", Soon, FALSE, FALSE),
       Given("s0", "", "b.co.uk", "/z", 0, FALSE, FALSE),
       Given("f2", "", "b.co.uk", "/z", Soon, FALSE, FALSE),
       Given("f3", "", "b.co.uk", "/z", Soon, FALSE, FALSE),
       Given("f4", "", "b.co.uk", "/z", Soon, FALSE, FALSE),
       Given("f5", "", "b.co.uk", "/z", Soon, FALSE, FALSE),
       Given("f6", "", "b.co.uk", "/z", Soon, FALSE, FALSE),
       Given("f7", "", "b.co.uk", "/z", Soon, FALSE, FALSE),
       Given("f8", "", "b.co.uk", "/z", Soon, FALSE, FALSE),
       Given("f9", "", "b.co.uk", "/z", Soon, FALSE, FALSE),
       Given("s1", "", "b.co.uk", "/a", 0, FALSE, FALSE),
       Given("fa", "", "b.co.uk", "/z", Soon, FALSE, FALSE) >>

\* the calls of Add
AddCalls ==
    { Junk,
      \* an expired cookie, a Domain that is not canonical, an empty Path
      << Given("e", "1", "b.co.uk", "/a", 1, FALSE, FALSE),
         Given("h", "1", ".B.co.uk", "/a", 0, FALSE, TRUE),
         Given("g", "1", "b.co.uk", "", 0, FALSE, FALSE),
         \* the triples of two cookies of Junk: one expired, one with new fields
         Given("s1", "9", "b.co.uk", "/a", 1, FALSE, FALSE),
         [Given("s0", "9", "b.co.uk", "/z", 0, TRUE, TRUE) EXCEPT !.Created = 2,
                                                                  !.LastAccess = 2] >> }

\* the calls of Remove: domain, path, name
RemoveCalls ==
    { << ".B.CO.UK.", "/a/b", "b" >>,
      << "w.b.co.uk", "/a", "a" >> }

(* ------------------------------- actions ------------------------------- *)

cfg == Config(boxedStorage, HostCookieOnIP, DomainCookiesOnPublicSuffixes, MaxBytesPerCookie)

NoURL == URL("", "", "")

\* what the last call was and what it returned
Last(op, u, cookies, acts, sent, existed) ==
    [op |-> op, url |-> u, cookies |-> cookies, acts |-> acts, sent |-> sent,
     existed |-> existed]

\* a second jar: its content, what its last call of Cookies returned, whether
\* it failed
Twin(store, sent, panic) == [content |-> store, sent |-> sent, panicked |-> panic]

\* the goroutines that call the jar at the same time
Procs == {1, 2}

\* a goroutine that is in no call of the jar.  In a call, pc is its place in
\* the method, seen the content it found when it came to the storage, raced
\* whether another goroutine was at the storage in the meantime
Idle == [pc |-> "idle", op |-> "", url |-> NoURL, cookies |-> <<>>, name |-> "",
         seen |-> <<>>, raced |-> FALSE]

\* NewJar(boxedStorage), with the two flags set by the caller; next to it
\* NewJar(false), the Mutex unlocked, no goroutine in a call
Init ==
    /\ boxedStorage \in BOOLEAN
    /\ HostCookieOnIP \in BOOLEAN
    /\ DomainCookiesOnPublicSuffixes \in BOOLEAN
    /\ MaxBytesPerCookie = DefaultMaxBytesPerCookie
    /\ content = IF boxedStorage THEN EmptyBoxed ELSE <<>>
    /\ clock = StartTime
    /\ panicked = FALSE
    /\ nops = 0
    /\ last = Last("NewJar", NoURL, <<>>, <<>>, <<>>, FALSE)
    /\ twin = Twin(<<>>, <<>>, FALSE)
    /\ mutex = 0
    /\ run = [g \in Procs |-> Idle]

Step ==
    /\ ~panicked
    /\ nops < MaxOps
    /\ nops' = nops + 1
    /\ UNCHANGED <<boxedStorage, HostCookieOnIP, DomainCookiesOnPublicSuffixes,
                   MaxBytesPerCookie>>

\* one goroutine calls one jar
Alone == UNCHANGED <<twin, mutex, run>>

\* the calls, each from start to return
callSetCookies(u, cookies) ==
    /\ Step
    /\ \E r \in {jarSetCookies(cfg, content, clock, u, cookies)} :
         /\ content' = r.store
         /\ last' = Last("SetCookies", u, cookies, r.acts, <<>>, FALSE)
    /\ UNCHANGED <<clock, panicked>>

callCookies(u) ==
    /\ Step
    /\ \E r \in {jarCookies(cfg, content, clock, u)} :
         /\ content' = r.store
         /\ panicked' = r.panic
         /\ last' = Last("Cookies", u, <<>>, <<>>, r.sent, FALSE)
    /\ UNCHANGED clock

callAdd(cookies) ==
    /\ Step
    /\ content' = jarAdd(cfg, content, clock, cookies, 1)
    /\ last' = Last("Add", NoURL, cookies, <<>>, <<>>, FALSE)
    /\ UNCHANGED <<clock, panicked>>

callRemove(domain, path, name) ==
    /\ Step
    /\ \E r \in {jarRemove(cfg, content, domain, path, name)} :
         /\ content' = r.store
         /\ last' = Last("Remove", URL("", domain, path), <<[Name |-> name]>>, <<>>, <<>>,
                         r.existed)
    /\ UNCHANGED <<clock, panicked>>

\* time passes: a little more than a second
passTime ==
    /\ Step
    /\ clock' = clock + Second + 1
    /\ last' = Last("Tick", NoURL, <<>>, <<>>, <<>>, FALSE)
    /\ UNCHANGED <<content, panicked>>

SetCookies(u, cookies) == callSetCookies(u, cookies) /\ Alone

Cookies(u) == callCookies(u) /\ Alone

Add(cookies) == callAdd(cookies) /\ Alone

Remove(domain, path, name) == callRemove(domain, path, name) /\ Alone

Tick == passTime /\ Alone

Next ==
    \/ \E c \in SetCalls : SetCookies(c.url, c.cookies)
    \/ \E u \in GetCalls : Cookies(u)
    \/ \E l \in AddCalls : Add(l)
    \/ \E t \in RemoveCalls : Remove(t[1], t[2], t[3])
    \/ Tick

Spec == Init /\ [][Next]_vars

(* ------------------------- two jars side by side ------------------------ *)
(* NewJar(true) and NewJar(false) with the same exported fields get the    *)
(* same calls at the same times: content is the boxed jar, twin the flat.  *)

twinCfg == Config(FALSE, HostCookieOnIP, DomainCookiesOnPublicSuffixes, MaxBytesPerCookie)

InitTwin == Init /\ boxedStorage

\* the flat jar after its call returned t; a jar that failed stays as it is
twinAfter(t) == IF twin.panicked THEN twin ELSE t

\* no goroutine runs beside the caller
Beside == UNCHANGED <<mutex, run>>

BothSetCookies(u, cookies) ==
    /\ callSetCookies(u, cookies)
    /\ \E t \in {jarSetCookies(twinCfg, twin.content, clock, u, cookies)} :
         twin' = twinAfter(Twin(t.store, <<>>, FALSE))
    /\ Beside

BothCookies(u) ==
    /\ callCookies(u)
    /\ \E t \in {jarCookies(twinCfg, twin.content, clock, u)} :
         twin' = twinAfter(Twin(t.store, t.sent, t.panic))
    /\ Beside

BothAdd(cookies) ==
    /\ callAdd(cookies)
    /\ twin' = twinAfter(Twin(jarAdd(twinCfg, twin.content, clock, cookies, 1), <<>>, FALSE))
    /\ Beside

BothRemove(domain, path, name) ==
    /\ callRemove(domain, path, name)
    /\ \E t \in {jarRemove(twinCfg, twin.content, domain, path, name)} :
         twin' = twinAfter(Twin(t.store, <<>>, FALSE))
    /\ Beside

BothTick == passTime /\ UNCHANGED twin /\ Beside

NextTwin ==
    \/ \E c \in SetCalls : BothSetCookies(c.url, c.cookies)
    \/ \E u \in GetCalls : BothCookies(u)
    \/ \E l \in AddCalls : BothAdd(l)
    \/ \E t \in RemoveCalls : BothRemove(t[1], t[2], t[3])
    \/ BothTick

SpecTwin == InitTwin /\ [][NextTwin]_vars

(* ------------------------ goroutines on one jar ------------------------- *)
(* Every method is cut at the points where it locks the Mutex, comes to    *)
(* the storage, leaves it and unlocks.  What a method does to the storage  *)
(* takes effect when it leaves; after a race it may have worked on the     *)
(* content it saw when it came.                                            *)

\* a call a goroutine makes
Job(op, u, cookies, name) ==
    [Idle EXCEPT !.pc = "called", !.op = op, !.url = u, !.cookies = cookies, !.name = name]

\* the calls the goroutines make
Jobs ==
    { Job("SetCookies", URL("http", "w.b.co.uk", "/a/c"),
          << Recv("a", "1", "", "", 0, 0, FALSE, FALSE) >>, ""),
      Job("SetCookies", URL("ftp", "w.b.co.uk", "/"),
          << Recv("a", "1", "", "", 0, 0, FALSE, FALSE) >>, ""),
      Job("Cookies", URL("http", "w.b.co.uk", "/a/b/c"), <<>>, ""),
      Job("Add", NoURL, << Given("a", "3", "w.b.co.uk", "/a", 0, FALSE, TRUE),
                           Given("s", "1", "b.co.uk", "/a", 0, FALSE, FALSE) >>, ""),
      Job("Remove", URL("", "w.b.co.uk", "/a"), <<>>, "a") }

\* a jar of which only SetCookies locks the Mutex
locksToWrite(j) == j.op = "SetCookies"

\* SetCookies and Cookies lock the Mutex of the jar; Add and Remove do not
locks(j) == j.op \in {"SetCookies", "Cookies"}

\* SetCookies and Cookies return before they lock
returnsEarly(j) ==
    \/ j.op = "SetCookies" /\ (~isHTTP(j.url) \/ hostFails(j.url))
    \/ j.op = "Cookies" /\ ~isHTTP(j.url)

\* what the call j does to the content store
effect(j, store) ==
    CASE j.op = "SetCookies" ->
             [store |-> jarSetCookies(cfg, store, clock, j.url, j.cookies).store,
              panic |-> FALSE]
      [] j.op = "Cookies" ->
             [store |-> jarCookies(cfg, store, clock, j.url).store,
              panic |-> jarCookies(cfg, store, clock, j.url).panic]
      [] j.op = "Add" ->
             [store |-> jarAdd(cfg, store, clock, j.cookies, 1), panic |-> FALSE]
      [] OTHER ->
             [store |-> jarRemove(cfg, store, j.url.Host, j.url.Path, j.name).store,
              panic |-> FALSE]

\* the goroutines that are at the storage
Inside == {g \in Procs : run[g].pc = "inside"}

Running ==
    /\ ~panicked
    /\ UNCHANGED <<boxedStorage, HostCookieOnIP, DomainCookiesOnPublicSuffixes,
                   MaxBytesPerCookie, clock, last, twin>>

\* goroutine g calls a method of the jar
Begin(g, j) ==
    /\ Running
    /\ run[g].pc = "idle"
    /\ nops < MaxOps
    /\ nops' = nops + 1
    /\ run' = [run EXCEPT ![g] = j]
    /\ UNCHANGED <<content, panicked, mutex>>

\* the method returns without a look at the storage
Return(g) ==
    /\ Running
    /\ run[g].pc = "called"
    /\ returnsEarly(run[g])
    /\ run' = [run EXCEPT ![g] = Idle]
    /\ UNCHANGED <<content, panicked, mutex, nops>>

\* jar.Lock()
Lock(g) ==
    /\ Running
    /\ run[g].pc = "called"
    /\ locks(run[g]) /\ ~returnsEarly(run[g])
    /\ mutex = 0
    /\ mutex' = g
    /\ run' = [run EXCEPT ![g].pc = "locked"]
    /\ UNCHANGED <<content, panicked, nops>>

\* the method comes to jar.content
Enter(g) ==
    /\ Running
    /\ \/ run[g].pc = "locked"
       \/ run[g].pc = "called" /\ ~locks(run[g])
    /\ run' = [h \in Procs |->
                 IF h = g
                 THEN [run[g] EXCEPT !.pc = "inside", !.seen = content,
                                     !.raced = Inside # {}]
                 ELSE IF h \in Inside THEN [run[h] EXCEPT !.raced = TRUE]
                 ELSE run[h]]
    /\ UNCHANGED <<content, panicked, mutex, nops>>

\* the method is done with jar.content
Leave(g) ==
    /\ Running
    /\ run[g].pc = "inside"
    /\ \E from \in IF run[g].raced THEN {content, run[g].seen} ELSE {content} :
         \E r \in {effect(run[g], from)} :
             /\ content' = r.store
             /\ panicked' = r.panic
    /\ run' = [run EXCEPT ![g] = IF locks(run[g]) THEN [run[g] EXCEPT !.pc = "unlocking"]
                                 ELSE Idle]
    /\ UNCHANGED <<mutex, nops>>

\* the deferred jar.Unlock()
Unlock(g) ==
    /\ Running
    /\ run[g].pc = "unlocking"
    /\ mutex' = 0
    /\ run' = [run EXCEPT ![g] = Idle]
    /\ UNCHANGED <<content, panicked, nops>>

NextLock ==
    \/ \E g \in Procs : \E j \in Jobs : Begin(g, j)
    \/ \E g \in Procs : Return(g)
    \/ \E g \in Procs : Lock(g)
    \/ \E g \in Procs : Enter(g)
    \/ \E g \in Procs : Leave(g)
    \/ \E g \in Procs : Unlock(g)

SpecLock == Init /\ [][NextLock]_vars

(* --------------------------- the size limit ----------------------------- *)
(* MaxBytesPerCookie is an exported field: the caller sets it after NewJar. *)

\* the values the caller gives MaxBytesPerCookie
Caps == {0 - 1, 0, 2, 3, DefaultMaxBytesPerCookie}

InitBytes ==
    /\ boxedStorage \in BOOLEAN
    /\ HostCookieOnIP \in BOOLEAN
    /\ DomainCookiesOnPublicSuffixes \in BOOLEAN
    /\ MaxBytesPerCookie \in Caps
    /\ content = IF boxedStorage THEN EmptyBoxed ELSE <<>>
    /\ clock = StartTime
    /\ panicked = FALSE
    /\ nops = 0
    /\ last = Last("NewJar", NoURL, <<>>, <<>>, <<>>, FALSE)
    /\ twin = Twin(<<>>, <<>>, FALSE)
    /\ mutex = 0
    /\ run = [g \in Procs |-> Idle]

\* calls of SetCookies with cookies of two, three and four bytes
BytesCalls ==
    { Call(URL("http", "w.b.co.uk", "/a/c"),
           << Recv("a", "1", "", "", 0, 0, FALSE, FALSE) >>),
      \* a new value of three bytes, a second cookie, a deletion of four bytes
      Call(URL("http", "w.b.co.uk", "/a/c"),
           << Recv("a", "22", "", "", 0, 0, TRUE, FALSE),
              Recv("b", "1", "", "", 0, 0, FALSE, FALSE),
              Recv("a", "333", "", "", 0, 0 - 1, FALSE, FALSE) >>),
      \* a deletion of one byte
      Call(URL("http", "w.b.co.uk", "/a/c"),
           << Recv("a", "", "", "", 0, 0 - 1, FALSE, FALSE) >>) }

NextBytes ==
    \/ \E c \in BytesCalls : SetCookies(c.url, c.cookies)
    \/ \E u \in GetCalls : Cookies(u)
    \/ Tick

SpecBytes == InitBytes /\ [][NextBytes]_vars

(* ------------------------- domain attributes --------------------------- *)

\* calls of SetCookies with domain attributes of every shape, from a host
\* below a public suffix, from a TLD and from an intranet host
DomainCalls ==
    { Call(URL("http", "w.b.co.uk", "/a/c"),
           << Recv("p", "1", ".", "", 0, 0, FALSE, FALSE),
              Recv("p", "2", "..b.co.uk", "", 0, 0, FALSE, FALSE),
              Recv("p", "3", "b.co.uk.", "", 0, 0, FALSE, FALSE),
              Recv("p", "4", "uk", "", 0, 0, FALSE, FALSE),
              Recv("p", "5", ".B.CO.UK", "", 0, 0, FALSE, FALSE),
              Recv("p", "6", "", "", 0, 0, FALSE, FALSE) >>),
      Call(URL("http", "uk", "/"),
           << Recv("t", "1", "", "", 0, 0, FALSE, FALSE),
              Recv("t", "2", "uk", "", 0, 0, FALSE, FALSE),
              Recv("t", "3", ".uk", "", 0, 0, FALSE, FALSE),
              Recv("t", "4", "x.uk", "", 0, 0, FALSE, FALSE) >>),
      Call(URL("http", "intra", "/"),
           << Recv("s", "1", "intra", "", 0, 0, FALSE, FALSE),
              Recv("s", "2", "", "", 0, 0, FALSE, FALSE) >>) }

NextDomains ==
    \/ \E c \in DomainCalls : SetCookies(c.url, c.cookies)
    \/ \E u \in GetCalls : Cookies(u)
    \/ \E l \in AddCalls : Add(l)
    \/ \E t \in RemoveCalls : Remove(t[1], t[2], t[3])
    \/ Tick

SpecDomains == Init /\ [][NextDomains]_vars

(* ------------------------------ compaction ----------------------------- *)
(* cleanup on its own, as TestFlatCleanup calls it: on a flat of any       *)
(* pattern of expired and other cookies, with the number of expired ones.  *)

\* the i-th cookie of a flat: expired long ago, or a session cookie
Entry(i, dead) ==
    Given(Char(LowerLetters, i), "", "b.co.uk", "/", IF dead THEN 1 ELSE 0, FALSE, FALSE)

\* the flats of n cookies
FlatsOf(n) == {[i \in 1..n |-> Entry(i, dead[i])] : dead \in [1..n -> BOOLEAN]}

InitCleanup ==
    /\ boxedStorage = FALSE
    /\ HostCookieOnIP = FALSE
    /\ DomainCookiesOnPublicSuffixes = FALSE
    /\ MaxBytesPerCookie = DefaultMaxBytesPerCookie
    /\ content \in UNION {FlatsOf(n) : n \in 0..MaxLen}
    /\ clock = StartTime
    /\ panicked = FALSE
    /\ nops = 0
    /\ last = Last("NewJar", NoURL, <<>>, <<>>, <<>>, FALSE)
    /\ twin = Twin(<<>>, <<>>, FALSE)
    /\ mutex = 0
    /\ run = [g \in Procs |-> Idle]

\* f.cleanup(num) with num the number of expired cookies of f
Cleanup ==
    /\ nops = 0
    /\ nops' = 1
    /\ \E num \in {Cardinality({k \in 1..Len(content) : Expired(content[k], clock)})} :
         content' = deref(content, cleanup(content, num, clock))
    /\ last' = Last("cleanup", NoURL, content, <<>>, <<>>, FALSE)
    /\ UNCHANGED <<boxedStorage, HostCookieOnIP, DomainCookiesOnPublicSuffixes,
                   MaxBytesPerCookie, clock, panicked>>
    /\ Alone

NextCleanup == Cleanup

SpecCleanup == InitCleanup /\ [][NextCleanup]_vars

(* --------------------------- registrable domain ------------------------ *)
(* EffectiveTLDPlusOne on its own, for every domain of up to MaxLabels     *)
(* labels, as TestEffectiveTLDPlusOneTests calls it.                       *)

\* the labels of the rules and three others
Labels == {"b", "c", "example", "com", "cy", "jp", "kobe", "city", "uk", "co"}

\* the domains of n labels
RECURSIVE DomainsOf(_)
DomainsOf(n) ==
    IF n = 1 THEN Labels
    ELSE {l \o "." \o d : l \in Labels, d \in DomainsOf(n - 1)}

InitSuffix ==
    /\ boxedStorage = FALSE
    /\ HostCookieOnIP = FALSE
    /\ DomainCookiesOnPublicSuffixes = FALSE
    /\ MaxBytesPerCookie = DefaultMaxBytesPerCookie
    /\ content = <<>>
    /\ clock = StartTime
    /\ panicked = FALSE
    /\ nops = 0
    /\ \E d \in UNION {DomainsOf(n) : n \in 1..MaxLabels} :
           last = Last("domain", URL("", d, ""), <<>>, <<>>, <<>>, FALSE)
    /\ twin = Twin(<<>>, <<>>, FALSE)
    /\ mutex = 0
    /\ run = [g \in Procs |-> Idle]

\* EffectiveTLDPlusOne(domain); last.sent holds what it returned
Lookup ==
    /\ nops = 0
    /\ nops' = 1
    /\ last' = Last("EffectiveTLDPlusOne", last.url, <<>>, <<>>,
                    << EffectiveTLDPlusOne(last.url.Host) >>, FALSE)
    /\ UNCHANGED <<boxedStorage, HostCookieOnIP, DomainCookiesOnPublicSuffixes,
                   MaxBytesPerCookie, content, clock, panicked>>
    /\ Alone

NextSuffix == Lookup

SpecSuffix == InitSuffix /\ [][NextSuffix]_vars

(* ------------------------- every call comes back ----------------------- *)
(* The goroutines of SpecLock, with All beside the four other methods and  *)
(* with the loops of a call taken one turn at a time: the outer loop of    *)
(* flat.cleanup that flat.retrieve starts, and the loop of findLabel in    *)
(* the loop of EffectiveTLDPlusOne.  A panic of Cookies unwinds through    *)
(* the deferred Unlock to the caller of the jar, which goes on.  Here last *)
(* names the goroutine that took the last step.                            *)

\* no loop is left to run
Done == [kind |-> "done"]

\* the state of flat.cleanup(num) before the first turn of its loop
cleanupStart(f, num) ==
    IF num = 0 \/ num = Len(f) THEN Done
    ELSE [kind |-> "cleanup", p |-> Pointers(Len(f)), i |-> 0, j |-> Len(f), n |-> 0,
          num |-> num]

\* a turn that changes nothing
cleanupTurnIdle(f, s, now) == s

\* one turn of the outer loop of flat.cleanup
cleanupTurn(f, s, now) ==
    IF ~(s.n < s.num) THEN Done
    ELSE LET i1 == nextExpired(f, s.p, s.i, s.j, now) IN
         IF i1 = s.j - 1 THEN Done
         ELSE LET b == lastLive(f, s.p, i1, s.j - 1, s.n, now) IN
              IF i1 = b.j \/ b.n = s.num THEN Done
              ELSE [s EXCEPT !.p = [s.p EXCEPT ![i1 + 1] = s.p[b.j + 1]],
                             !.i = i1 + 1, !.j = b.j, !.n = b.n + 1]

\* the state of EffectiveTLDPlusOne(domain) before the first turn of its loop
searchStart(domain) ==
    [kind |-> "findLabel", parts |-> Split(domain), m |-> Len(Split(domain)),
     nodes |-> PublicSuffixes.Sub, at |-> "call", i |-> 0, p |-> 0, q |-> 0]

\* the call findLabel(parts[m], nodes) up to its loop
searchCall(s) ==
    LET N == Len(s.nodes)
        k == fibAbove(0, N) - 1
        M == fibonacci(k + 1) - N - 1
        i == fibonacci(k) - 1
        p == fibonacci(k - 1)
        q == fibonacci(k - 2)
    IN  IF N = 0 THEN Done
        ELSE IF StrLess(s.nodes[i + 1].Label, s.parts[s.m])
        THEN IF p = 1 THEN Done
             ELSE [s EXCEPT !.at = "loop", !.i = i - M + q, !.p = p - q, !.q = q - (p - q)]
        ELSE [s EXCEPT !.at = "loop", !.i = i, !.p = p, !.q = q]

\* one turn of the loop of findLabel; a label that is found goes on with the
\* next round of the loop of EffectiveTLDPlusOne
searchTurn(s) ==
    IF s.at = "call" THEN (IF s.m > 0 THEN searchCall(s) ELSE Done)
    ELSE IF s.parts[s.m] = s.nodes[s.i + 1].Label
         THEN [s EXCEPT !.at = "call", !.m = s.m - 1, !.nodes = s.nodes[s.i + 1].Sub]
    ELSE IF StrLess(s.parts[s.m], s.nodes[s.i + 1].Label)
         THEN IF s.q = 0 THEN Done
              ELSE [s EXCEPT !.i = s.i - s.q, !.p = s.q, !.q = s.p - s.q]
    ELSE IF s.p = 1 THEN Done
         ELSE [s EXCEPT !.i = s.i + s.q, !.p = s.p - s.q, !.q = s.q - (s.p - s.q)]

\* the loop the call j starts on the content it found: flat.retrieve counts
\* the expired cookies and compacts; boxed storage looks up the box of the
\* host or domain, SetCookies the Domain attribute of the cookie
loopOf(j, store, now) ==
    LET dead == Cardinality({k \in 1..Len(store) : Expired(store[k], now)})
        given(c) == c.Domain # ""
        attrs == SelectSeq(j.cookies, given)
    IN  CASE j.op = "Cookies" /\ ~boxedStorage ->
                 IF dead > CleanupThreshold /\ dead > Len(store) \div 5
                 THEN cleanupStart(store, dead) ELSE Done
          [] j.op = "Cookies" /\ boxedStorage -> searchStart(host(j.url))
          [] j.op = "SetCookies" /\ Len(attrs) > 0 -> searchStart(attrs[1].Domain)
          [] j.op = "Add" /\ boxedStorage /\ Len(attrs) > 0 -> searchStart(attrs[1].Domain)
          [] j.op = "Remove" /\ boxedStorage -> searchStart(j.url.Host)
          [] OTHER -> Done

\* the next state of the loop of the call j
turn(j, now) ==
    CASE j.loop.kind = "todo" -> loopOf(j, j.seen, now)
      [] j.loop.kind = "cleanup" -> cleanupTurn(j.seen, j.loop, now)
      [] OTHER -> searchTurn(j.loop)

\* the calls the goroutines make; early is whether the call returns before
\* it locks
LiveJobs ==
    { j @@ [loop |-> [kind |-> "todo"], early |-> returnsEarly(j)] :
        j \in { Job("SetCookies", URL("http", "w.b.co.uk", "/a/c"),
                    << Recv("a", "1", "", "", 0, 0, FALSE, FALSE),
                       Recv("d", "1", "b.co.uk", "", 0, 0, FALSE, FALSE) >>, ""),
                Job("SetCookies", URL("ftp", "w.b.co.uk", "/"),
                    << Recv("a", "1", "", "", 0, 0, FALSE, FALSE) >>, ""),
                Job("Cookies", URL("http", "w.b.co.uk", "/a/b/c"), <<>>, ""),
                Job("Add", NoURL, << Given("a", "3", "w.b.co.uk", "/a", 0, FALSE, TRUE),
                                     Given("g", "3", "w.b.co.uk", "", 0, FALSE, TRUE) >>, ""),
                Job("Remove", URL("", "w.b.co.uk", "/a"), <<>>, "a"),
                Job("All", NoURL, <<>>, "") } }

\* a flat where every cookie but the one at live has expired
DeadBut(live) == [i \in 1..(CleanupThreshold + 2) |-> Entry(i, i # live)]

\* the step of goroutine g; odd changes with every step
StepOf(g) == [op |-> "step", by |-> g, odd |-> ~last.odd]

InitLive ==
    /\ boxedStorage \in BOOLEAN
    /\ HostCookieOnIP = FALSE
    /\ DomainCookiesOnPublicSuffixes = FALSE
    /\ MaxBytesPerCookie = DefaultMaxBytesPerCookie
    /\ content \in IF boxedStorage THEN {EmptyBoxed}
                   ELSE {<<>>} \cup {DeadBut(live) : live \in {1, 2, CleanupThreshold + 2}}
    /\ clock = StartTime
    /\ panicked = FALSE
    /\ nops = 0
    /\ last = [op |-> "NewJar", by |-> 0, odd |-> FALSE]
    /\ twin = Twin(<<>>, <<>>, FALSE)
    /\ mutex = 0
    /\ run = [g \in Procs |-> Idle]

\* a step of goroutine g leaves the jar's fields, the clock and the twin alone
Stepping(g) ==
    /\ last' = StepOf(g)
    /\ UNCHANGED <<boxedStorage, HostCookieOnIP, DomainCookiesOnPublicSuffixes,
                   MaxBytesPerCookie, clock, twin>>

\* goroutine g calls a method of the jar
LiveBegin(g, j) ==
    /\ run[g].pc = "idle"
    /\ nops < MaxOps
    /\ nops' = nops + 1
    /\ run' = [run EXCEPT ![g] = j]
    /\ last' = [op |-> "call", by |-> g, odd |-> ~last.odd]
    /\ UNCHANGED <<boxedStorage, HostCookieOnIP, DomainCookiesOnPublicSuffixes,
                   MaxBytesPerCookie, clock, twin, content, panicked, mutex>>

\* the method returns without a look at the storage
LiveReturn(g) ==
    /\ run[g].pc = "called"
    /\ run[g].early
    /\ run' = [run EXCEPT ![g] = Idle]
    /\ UNCHANGED <<content, panicked, mutex, nops>>
    /\ Stepping(g)

\* jar.Lock(); a goroutine waits here while the Mutex is locked
LiveLock(g) ==
    /\ run[g].pc = "called"
    /\ locks(run[g]) /\ ~run[g].early
    /\ mutex = 0
    /\ mutex' = g
    /\ run' = [run EXCEPT ![g].pc = "locked"]
    /\ UNCHANGED <<content, panicked, nops>>
    /\ Stepping(g)

\* the method comes to jar.content
LiveEnter(g) ==
    /\ \/ run[g].pc = "locked"
       \/ run[g].pc = "called" /\ ~locks(run[g])
    /\ run' = [h \in Procs |->
                 IF h = g
                 THEN [run[g] EXCEPT !.pc = "inside", !.seen = content,
                                     !.raced = Inside # {}]
                 ELSE IF h \in Inside THEN [run[h] EXCEPT !.raced = TRUE]
                 ELSE run[h]]
    /\ UNCHANGED <<content, panicked, mutex, nops>>
    /\ Stepping(g)

\* one turn of the loop of the call of g
LiveTurn(g) ==
    /\ run[g].pc = "inside"
    /\ run[g].loop # Done
    /\ run' = [run EXCEPT ![g].loop = turn(run[g], clock)]
    /\ UNCHANGED <<content, panicked, mutex, nops>>
    /\ Stepping(g)

\* what the call j does to the content store; All reads it only
outcome(j, store) ==
    IF j.op = "All" THEN [store |-> store, panic |-> FALSE] ELSE effect(j, store)

\* the method is done with jar.content; the deferred Unlock is still to run,
\* after a panic as well
LiveLeave(g) ==
    /\ run[g].pc = "inside"
    /\ run[g].loop = Done
    /\ \E from \in IF run[g].raced THEN {content, run[g].seen} ELSE {content} :
         \E r \in {outcome(run[g], from)} :
             /\ content' = r.store
             /\ panicked' = (panicked \/ r.panic)
    /\ run' = [run EXCEPT ![g] = IF locks(run[g]) THEN [run[g] EXCEPT !.pc = "unlocking"]
                                 ELSE Idle]
    /\ UNCHANGED <<mutex, nops>>
    /\ Stepping(g)

\* an Unlock that leaves the Mutex locked
LiveUnlockKept(g) ==
    /\ run[g].pc = "unlocking"
    /\ run' = [run EXCEPT ![g] = Idle]
    /\ UNCHANGED <<content, panicked, nops, mutex>>
    /\ Stepping(g)

\* the deferred jar.Unlock()
LiveUnlock(g) ==
    /\ run[g].pc = "unlocking"
    /\ mutex' = 0
    /\ run' = [run EXCEPT ![g] = Idle]
    /\ UNCHANGED <<content, panicked, nops>>
    /\ Stepping(g)

NextLive ==
    \/ \E g \in Procs : \E j \in LiveJobs : LiveBegin(g, j)
    \/ \E g \in Procs : LiveReturn(g)
    \/ \E g \in Procs : LiveLock(g)
    \/ \E g \in Procs : LiveEnter(g)
    \/ \E g \in Procs : LiveTurn(g)
    \/ \E g \in Procs : LiveLeave(g)
    \/ \E g \in Procs : LiveUnlock(g)

\* goroutine g is in a call and does not wait for the Mutex: one of its
\* steps can be taken
Ready(g) ==
    /\ run[g].pc # "idle"
    /\ ~(run[g].pc = "called" /\ locks(run[g]) /\ ~run[g].early /\ mutex # 0)

\* a step of goroutine g, as the scheduler sees it
Scheduled(g) == Ready(g) /\ last' = StepOf(g)

\* the scheduler runs every goroutine that can run, and a Mutex that is
\* unlocked goes to a goroutine that waits for it
SpecLive == InitLive /\ [][NextLive]_vars /\ \A g \in Procs : WF_last(Scheduled(g))

(* ------------------------------ the paths ------------------------------ *)
(* SetCookies with one cookie for every request path of TestDefaultPath    *)
(* and every kind of Path attribute, and Cookies with and without a path.  *)

\* the request paths of defaultPathTests
TestPaths == {"", "xy", "xy/z", "/", "/abc", "/ab/xy", "/ab/xy/z", "/ab/", "/ab/xy/z/"}

\* Path attributes: none, rooted, rooted with a trailing slash, not rooted
PathAttrs == {"", "/x", "/x/", "x/y"}

\* the Value tells from which request path and with which attribute the
\* cookie came
PathCalls ==
    { Call(URL("http", "w.b.co.uk", p),
           << Recv("p", p \o "|" \o a, "", a, 0, 0, FALSE, FALSE) >>) :
        p \in TestPaths, a \in PathAttrs }

PathGets == { URL("http", "w.b.co.uk", p) : p \in {"", "/", "/ab/xy", "/x/y"} }

NextPaths ==
    \/ \E c \in PathCalls : SetCookies(c.url, c.cookies)
    \/ \E u \in PathGets : Cookies(u)

SpecPaths == Init /\ [][NextPaths]_vars

(* ------------------------------ updates -------------------------------- *)
(* SetCookies that sends the cookie a of w.b.co.uk and /a again and again, *)
(* each time with other attributes, twice in one batch, after a deletion,  *)
(* and as a domain cookie and a host cookie of one name on b.co.uk.        *)

UpdateCalls ==
    { Call(URL("https", "w.b.co.uk", "/a/c"),
           << Recv("a", "1", "", "", Soon + Second, 0, TRUE, TRUE) >>),
      Call(URL("http", "w.b.co.uk", "/a/c"),
           << Recv("a", "2", "", "", 0, 0, FALSE, FALSE) >>),
      Call(URL("http", "w.b.co.uk", "/a/c"),
           << Recv("a", "3", "", "", 0, 2, FALSE, FALSE),
              Recv("a", "4", "", "/a", 0, 0, FALSE, TRUE) >>),
      Call(URL("http", "w.b.co.uk", "/a/c"),
           << Recv("a", "", "", "", 0, 0 - 1, FALSE, FALSE),
              Recv("a", "5", "", "", 1, 1, TRUE, FALSE) >>),
      Call(URL("http", "b.co.uk", "/a/c"),
           << Recv("a", "6", "b.co.uk", "", 0, 0, FALSE, FALSE) >>),
      Call(URL("http", "b.co.uk", "/a/c"),
           << Recv("a", "7", "", "", 0, 0, FALSE, FALSE) >>) }

NextUpdates ==
    \/ \E c \in UpdateCalls : SetCookies(c.url, c.cookies)
    \/ Tick

SpecUpdates == Init /\ [][NextUpdates]_vars

(* ------------------------- the slot of an expired cookie ---------------- *)
(* A flat jar gets a short-lived cookie with every attribute set, session  *)
(* cookies, and after the first has expired cookies with new triples, from *)
(* SetCookies and from Add.                                                *)

ReuseCalls ==
    { Call(URL("https", "w.b.co.uk", "/a/c"),
           << Recv("x", "old", "b.co.uk", "/a/b", 0, 1, TRUE, TRUE) >>),
      Call(URL("http", "w.b.co.uk", "/"),
           << Recv("y", "1", "", "", 0, 0, FALSE, FALSE) >>),
      Call(URL("http", "w.b.co.uk", "/"),
           << Recv("n", "new", "", "", 0, 0, FALSE, FALSE) >>),
      Call(URL("http", "c.com", "/"),
           << Recv("", "", "", "", 0, 0, FALSE, FALSE) >>) }

ReuseAdds ==
    { << Given("m", "3", "c.com", "/", 0, FALSE, TRUE) >>,
      << Given("x", "old", "b.co.uk", "/a/b", Soon, TRUE, FALSE),
         Given("y", "1", "w.b.co.uk", "/", 0, FALSE, TRUE) >> }

InitReuse == Init /\ ~boxedStorage

NextReuse ==
    \/ \E c \in ReuseCalls : SetCookies(c.url, c.cookies)
    \/ \E l \in ReuseAdds : Add(l)
    \/ Tick

SpecReuse == InitReuse /\ [][NextReuse]_vars

(* --------------------------- requests to an IP -------------------------- *)
(* Cookies for the host 1.2.3.4 on a jar that got cookies from 1.2.3.4 and *)
(* a domain cookie for 3.4 from the host w.3.4.                            *)

OnIPCalls ==
    { Call(URL("http", "w.3.4", "/"),
           << Recv("d", "1", "3.4", "", 0, 0, FALSE, FALSE) >>),
      Call(URL("http", "1.2.3.4", "/"),
           << Recv("i", "2", "", "", 0, 0, FALSE, FALSE),
              Recv("j", "3", "1.2.3.4", "", 0, 0, FALSE, FALSE) >>) }

OnIPGets == { URL("http", "1.2.3.4", "/"), URL("http", "w.3.4", "/") }

NextOnIP ==
    \/ \E c \in OnIPCalls : SetCookies(c.url, c.cookies)
    \/ \E u \in OnIPGets : Cookies(u)
    \/ Tick

SpecOnIP == Init /\ [][NextOnIP]_vars

(* ------------------------- other rule trees ----------------------------- *)
(* EffectiveTLDPlusOne with the variable PublicSuffixes set to the tree of *)
(* the package or to a tree with inner nodes that are no rules; the tree   *)
(* is last.cookies[1].                                                     *)

\* EffectiveTLDPlusOne(domain) when PublicSuffixes is tree
plusOneIn(tree, domain) ==
    joinFrom(domain, Split(domain),
             matchLabels(Split(domain), Len(Split(domain)), tree.Sub, tree))

\* the rules co.com and b.example.co.com: com and example are inner nodes
InnerNodes ==
    Node("", None,
         << Node("com", None,
                 << Node("co", Normal,
                         << Node("example", None, << Node("b", Normal, <<>>) >>) >>) >>) >>)

RuleTrees == {PublicSuffixes, InnerNodes}

InitTrees ==
    /\ boxedStorage = FALSE
    /\ HostCookieOnIP = FALSE
    /\ DomainCookiesOnPublicSuffixes = FALSE
    /\ MaxBytesPerCookie = DefaultMaxBytesPerCookie
    /\ content = <<>>
    /\ clock = StartTime
    /\ panicked = FALSE
    /\ nops = 0
    /\ \E d \in UNION {DomainsOf(n) : n \in 1..MaxLabels} : \E tree \in RuleTrees :
           last = Last("domain", URL("", d, ""), << tree >>, <<>>, <<>>, FALSE)
    /\ twin = Twin(<<>>, <<>>, FALSE)
    /\ mutex = 0
    /\ run = [g \in Procs |-> Idle]

\* EffectiveTLDPlusOne(domain); last.sent holds what it returned
LookupIn ==
    /\ nops = 0
    /\ nops' = 1
    /\ last' = Last("EffectiveTLDPlusOne", last.url, last.cookies, <<>>,
                    << plusOneIn(last.cookies[1], last.url.Host) >>, FALSE)
    /\ UNCHANGED <<boxedStorage, HostCookieOnIP, DomainCookiesOnPublicSuffixes,
                   MaxBytesPerCookie, content, clock, panicked>>
    /\ Alone

NextTrees == LookupIn

SpecTrees == InitTrees /\ [][NextTrees]_vars

(* --------------------- SetCookies beside Cookies ------------------------ *)
(* The goroutines of SpecLock when they call SetCookies and Cookies only.  *)

AtomicJobs ==
    { Job("SetCookies", URL("http", "w.b.co.uk", "/a/c"),
          << Recv("a", "1", "", "", 0, 0, FALSE, FALSE),
             Recv("d", "2", "b.co.uk", "/", 0, 0, FALSE, TRUE) >>, ""),
      Job("SetCookies", URL("https", "w.b.co.uk", "/a/c"),
          << Recv("a", "3", "", "", 0, 1, TRUE, FALSE) >>, ""),
      Job("SetCookies", URL("ftp", "w.b.co.uk", "/"),
          << Recv("a", "4", "", "", 0, 0, FALSE, FALSE) >>, ""),
      Job("Cookies", URL("http", "w.b.co.uk", "/a/b/c"), <<>>, ""),
      Job("Cookies", URL("https", "b.co.uk", "/"), <<>>, "") }

NextAtomic ==
    \/ \E g \in Procs : \E j \in AtomicJobs : Begin(g, j)
    \/ \E g \in Procs : Return(g)
    \/ \E g \in Procs : Lock(g)
    \/ \E g \in Procs : Enter(g)
    \/ \E g \in Procs : Leave(g)
    \/ \E g \in Procs : Unlock(g)

SpecAtomic == Init /\ [][NextAtomic]_vars

(* --------------------------- All beside a writer ------------------------ *)
(* The goroutines of SpecLock with All, and with the store of a cookie cut *)
(* where the code gets the pointer from find and where it writes through   *)
(* it.  All takes no lock; last.sent is the set of cookies it returned.    *)

SnapshotJobs ==
    { Job("SetCookies", URL("http", "w.b.co.uk", "/a/c"),
          << Recv("a", "1", "", "", 0, 0, FALSE, FALSE) >>, ""),
      Job("SetCookies", URL("http", "w.b.co.uk", "/a/c"),
          << Recv("a", "2", "", "", 0, 0, TRUE, FALSE) >>, ""),
      Job("Add", NoURL, << Given("s", "3", "b.co.uk", "/a", 0, FALSE, FALSE) >>, ""),
      Job("All", NoURL, <<>>, "") }

\* the cookie find returns to the call j: update looks for the triple the
\* received cookie resolves to, Add for the triple of the given cookie
slotOf(j, store, now) ==
    IF j.op = "SetCookies"
    THEN find(boxedStorage, store, now,
              domainAndType(HostCookieOnIP, DomainCookiesOnPublicSuffixes,
                            host(j.url), j.cookies[1].Domain).domain,
              cookiePath(defaultPath(j.url), j.cookies[1]), j.cookies[1].Name)
    ELSE find(boxedStorage, store, now,
              j.cookies[1].Domain, j.cookies[1].Path, j.cookies[1].Name)

\* the store after the call j wrote the cookie that find returned
filled(j, store, now) ==
    IF j.op = "SetCookies"
    THEN storeAt(cfg, [store |-> store, key |-> j.key, at |-> j.at], now,
                 domainAndType(HostCookieOnIP, DomainCookiesOnPublicSuffixes,
                               host(j.url), j.cookies[1].Domain),
                 cookiePath(defaultPath(j.url), j.cookies[1]), j.cookies[1]).store
    ELSE setCookieAt(boxedStorage, store, j.key, j.at, j.cookies[1])

\* jar.content.find returns the pointer to the cookie
FindSlot(g) ==
    /\ Running
    /\ run[g].pc = "inside"
    /\ \E fd \in {slotOf(run[g], content, clock)} :
         /\ content' = fd.store
         /\ run' = [run EXCEPT ![g] = [key |-> fd.key, at |-> fd.at]
                                      @@ [run[g] EXCEPT !.pc = "found"]]
    /\ UNCHANGED <<panicked, mutex, nops>>

\* the fields of the cookie are written
FillSlot(g) ==
    /\ Running
    /\ run[g].pc = "found"
    /\ content' = filled(run[g], content, clock)
    /\ run' = [run EXCEPT ![g] = IF locks(run[g]) THEN [Idle EXCEPT !.pc = "unlocking"]
                                 ELSE Idle]
    /\ UNCHANGED <<panicked, mutex, nops>>

\* Jar.All from call to return
Snapshot(g) ==
    /\ ~panicked
    /\ run[g].pc = "called"
    /\ run[g].op = "All"
    /\ run' = [run EXCEPT ![g] = Idle]
    /\ last' = Last("All", NoURL, <<>>, <<>>, All(boxedStorage, content, clock), FALSE)
    /\ UNCHANGED <<boxedStorage, HostCookieOnIP, DomainCookiesOnPublicSuffixes,
                   MaxBytesPerCookie, clock, twin, content, panicked, mutex, nops>>

\* a writer comes to jar.content
Arrive(g) == run[g].op # "All" /\ Enter(g)

NextSnapshot ==
    \/ \E g \in Procs : \E j \in SnapshotJobs : Begin(g, j)
    \/ \E g \in Procs : Lock(g)
    \/ \E g \in Procs : Arrive(g)
    \/ \E g \in Procs : FindSlot(g)
    \/ \E g \in Procs : FillSlot(g)
    \/ \E g \in Procs : Unlock(g)
    \/ \E g \in Procs : Snapshot(g)

SpecSnapshot == Init /\ [][NextSnapshot]_vars

(* ------------------------- calls at later times ------------------------- *)
(* Every call reads a clock that is later than at the call before: by one  *)
(* nanosecond or by more than a second.                                    *)

Elapsed == {1, Second + 1}

RecencyCalls ==
    { Call(URL("http", "w.b.co.uk", "/a/c"),
           << Recv("a", "1", "", "", 0, 0, FALSE, FALSE),
              Recv("b", "2", "", "", 0, 0, FALSE, FALSE),
              Recv("c", "3", "", "", 0, 0, FALSE, FALSE) >>),
      Call(URL("http", "w.b.co.uk", "/a/c"),
           << Recv("c", "4", "", "", 0, 0, FALSE, FALSE) >>),
      Call(URL("http", "w.b.co.uk", "/x"),
           << Recv("b", "5", "", "/b", 0, 0, FALSE, FALSE) >>) }

RecencyGets == { URL("http", "w.b.co.uk", "/a/c"), URL("http", "w.b.co.uk", "/b") }

\* Jar.SetCookies, n after the call before
SetCookiesAfter(n, u, cookies) ==
    /\ Step
    /\ clock' = clock + n
    /\ \E r \in {jarSetCookies(cfg, content, clock + n, u, cookies)} :
         /\ content' = r.store
         /\ last' = Last("SetCookies", u, cookies, r.acts, <<>>, FALSE)
    /\ UNCHANGED panicked
    /\ Alone

\* Jar.Cookies, n after the call before
CookiesAfter(n, u) ==
    /\ Step
    /\ clock' = clock + n
    /\ \E r \in {jarCookies(cfg, content, clock + n, u)} :
         /\ content' = r.store
         /\ panicked' = r.panic
         /\ last' = Last("Cookies", u, <<>>, <<>>, r.sent, FALSE)
    /\ Alone

NextRecency ==
    \/ \E n \in Elapsed : \E c \in RecencyCalls : SetCookiesAfter(n, c.url, c.cookies)
    \/ \E n \in Elapsed : \E u \in RecencyGets : CookiesAfter(n, u)

SpecRecency == Init /\ [][NextRecency]_vars

(* ----------------------------- properties ----------------------------- *)

\* the cookies the last call of Cookies returned
Returned == {last.sent[k] : k \in 1..Len(last.sent)}

\* canonical host and path of the request of the last call
reqHost == host(last.url)
reqPath == IF last.url.Path = "" THEN "/" ELSE last.url.Path

\* the last call was Cookies(u) for an http or https URL with a good host
\* and it returned
Answered ==
    last.op = "Cookies" /\ isHTTP(last.url) /\ ~hostFails(last.url) /\ ~panicked

\* every stored record
Records == Stored(boxedStorage, content)

\* the records that are not expired
Live == All(boxedStorage, content, clock)

\* domain-match of RFC 6265 section 5.1.3 for a record with this Domain
DomainMatches(domain, hostOnly, h) ==
    h = domain \/ (~hostOnly /\ HasSuffix(h, "." \o domain))

\* path-match of RFC 6265 section 5.1.4 of request path r and cookie path p
PathMatches(p, r) ==
    \/ r = p
    \/ HasPrefix(r, p) /\ Len(p) > 0 /\ Char(p, Len(p)) = "/"
    \/ HasPrefix(r, p) /\ Len(r) > Len(p) /\ Char(r, Len(p) + 1) = "/"

\* the record is one the request of the last call asks for
Wanted(c) ==
    /\ DomainMatches(c.Domain, c.HostOnly, reqHost)
    /\ PathMatches(c.Path, reqPath)
    /\ (isSecure(last.url) \/ ~c.Secure)

\* C1: every cookie that Cookies(u) returns is a stored record that is not
\* expired, whose Domain domain-matches the host of u (equal, or for a record
\* that is not HostOnly the host ends with "." and the Domain) and whose Path
\* path-matches the path of u
C1_ReturnedMatch ==
    last.op = "Cookies" =>
        \A c \in Returned :
            /\ c \in Records
            /\ ~(c.Expires # 0 /\ c.Expires < clock)
            /\ DomainMatches(c.Domain, c.HostOnly, reqHost)
            /\ PathMatches(c.Path, reqPath)

\* Cookies returned a cookie and left out an expired record that matches
C1_Witness ==
    /\ last.op = "Cookies"
    /\ Returned # {}
    /\ \E c \in Records \ Live : Wanted(c)

\* C2: Cookies(u) for an http or https URL returns every stored record that
\* is not expired, domain-matches the host, path-matches the path and is
\* secure-compatible, for either storage and any setting of the flags
C2_Complete ==
    Answered => \A c \in Live : Wanted(c) => c \in Returned

\* C3: a stored cookie with Secure set is never returned for an http URL, and
\* it is returned for an https URL whose host and path match
C3_Secure ==
    /\ (last.op = "Cookies" /\ ~isSecure(last.url)) =>
           \A c \in Returned : ~c.Secure
    /\ (Answered /\ isSecure(last.url)) =>
           \A c \in Live :
               (/\ c.Secure
                /\ DomainMatches(c.Domain, c.HostOnly, reqHost)
                /\ PathMatches(c.Path, reqPath)) => c \in Returned

\* C4: a host cookie (HostOnly set) is returned only for requests whose
\* canonical host equals its Domain, never for a subdomain, a sibling or a
\* parent host
C4_HostCookie ==
    last.op = "Cookies" => \A c \in Returned : c.HostOnly => reqHost = c.Domain

\* Cookies answered a subdomain of the host of a host cookie that is not
\* expired and matches the path: domain cookies came back, it did not
C4_Witness ==
    /\ last.op = "Cookies"
    /\ Returned # {}
    /\ \E c \in Live \ Returned :
           /\ c.HostOnly
           /\ HasSuffix(reqHost, "." \o c.Domain)
           /\ PathMatches(c.Path, reqPath)
           /\ (isSecure(last.url) \/ ~c.Secure)

\* C5: a cookie accepted with a domain attribute that resolves to D is a
\* domain cookie (HostOnly not set): it is returned for requests to D and to
\* every host that ends with "." and D, and never for a parent of D or a host
\* of another domain
C5_DomainCookie ==
    /\ last.op = "Cookies" =>
           \A c \in Returned :
               ~c.HostOnly => (reqHost = c.Domain \/ HasSuffix(reqHost, "." \o c.Domain))
    /\ Answered =>
           \A c \in Live :
               (/\ ~c.HostOnly
                /\ (reqHost = c.Domain \/ HasSuffix(reqHost, "." \o c.Domain))
                /\ PathMatches(c.Path, reqPath)
                /\ (isSecure(last.url) \/ ~c.Secure)) => c \in Returned

\* C6: in the list Cookies(u) returns, of any two adjacent cookies the
\* earlier one has the longer Path, or a Path of the same length and a
\* Created that is not later; flat and boxed storage give the same order
C6_Order ==
    last.op = "Cookies" =>
        \A k \in 1..(Len(last.sent) - 1) :
            LET a == last.sent[k]
                b == last.sent[k + 1]
            IN  \/ Len(a.Path) > Len(b.Path)
                \/ Len(a.Path) = Len(b.Path) /\ a.Created <= b.Created

\* Cookies returned cookies with paths of different length and two with
\* paths of one length that were created at different times
C6_Witness ==
    /\ last.op = "Cookies"
    /\ \E i, j \in 1..Len(last.sent) : Len(last.sent[i].Path) > Len(last.sent[j].Path)
    /\ \E i, j \in 1..Len(last.sent) :
           /\ Len(last.sent[i].Path) = Len(last.sent[j].Path)
           /\ last.sent[i].Created < last.sent[j].Created

\* the slots of the store: box key and position
SlotIds ==
    IF boxedStorage
    THEN UNION {{<<k, i>> : i \in 1..Len(content[k])} : k \in DOMAIN content}
    ELSE {<<"", i>> : i \in 1..Len(content)}

\* the record in a slot
InSlot(p) == cookieAt(boxedStorage, content, p[1], p[2])

\* C7: in every reachable state no two stored records have the same Domain,
\* Path and Name; a cookie received or added with the triple of a record
\* overwrites that record
C7_UniqueTriple ==
    \A p, q \in SlotIds :
        p # q => ~(/\ InSlot(p).Domain = InSlot(q).Domain
                   /\ InSlot(p).Path = InSlot(q).Path
                   /\ InSlot(p).Name = InSlot(q).Name)

\* SetCookies received a cookie with the triple of a stored record while
\* other records were stored
C7_Witness ==
    /\ last.op = "SetCookies"
    /\ \E k \in 1..Len(last.acts) : last.acts[k] = updateCookie
    /\ Cardinality(SlotIds) >= 2

\* the records that are not expired and whose Domain neither is h nor ends
\* h after a "."
Foreign(store, h) ==
    {c \in All(boxedStorage, store, clock) :
        ~(h = c.Domain \/ HasSuffix(h, "." \o c.Domain))}

\* C8: SetCookies(u, cookies) with canonical host H never creates, modifies
\* or deletes a record that is not expired and whose Domain D satisfies
\* neither H = D nor H ends with "." and D
C8_NoForeignChange ==
    [][last'.op = "SetCookies" =>
          \A h \in {host(last'.url)} : Foreign(content', h) = Foreign(content, h)]_vars

\* SetCookies stored a cookie and turned others down while records of
\* another domain were in the jar
C8_Witness ==
    /\ last.op = "SetCookies"
    /\ \E k \in 1..Len(last.acts) : last.acts[k] = createCookie
    /\ \E k \in 1..Len(last.acts) :
           /\ last.acts[k] = invalidCookie
           /\ \E c \in Foreign(content, reqHost) :
                  c.Domain = ToLower(TrimLeft(last.cookies[k].Domain, "."))
                  /\ c.Name = last.cookies[k].Name

\* the domain of the received cookie r resolves for host h
Resolves(h, r) ==
    domainAndType(HostCookieOnIP, DomainCookiesOnPublicSuffixes, h, r.Domain).err = ""

\* C9: a received cookie whose domain resolution fails leaves the jar as it
\* is and does not stop the batch: SetCookies(u, batch) ends in the state in
\* which SetCookies(u, batch without the failing cookies) ends
C9_RejectedSkipped ==
    [][last'.op = "SetCookies" =>
          \A call \in {last'} : \A h \in {host(call.url)} :
              LET good(r) == Resolves(h, r) IN
              \A kept \in {SelectSeq(call.cookies, good)} :
                  kept # call.cookies =>
                      content' = jarSetCookies(cfg, content, clock, call.url, kept).store]_vars

\* SetCookies stored a cookie, rejected the next one and stored the third
C9_Witness ==
    /\ last.op = "SetCookies"
    /\ last.acts = <<createCookie, invalidCookie, createCookie>>
    /\ Cardinality(Records) = 2

\* the domain attribute with one leading dot stripped, in lower case
resolvedDomain(domainAttr) ==
    ToLower(IF HasPrefix(domainAttr, ".") THEN Slice(domainAttr, 2, Len(domainAttr))
            ELSE domainAttr)

\* C10: with DomainCookiesOnPublicSuffixes not set, a received cookie whose
\* resolved domain is a public suffix is stored as a host cookie (Domain is
\* the request host, HostOnly set) when the resolved domain is the request
\* host, and is rejected when it is not
C10_PublicSuffix ==
    (last.op = "SetCookies" /\ ~DomainCookiesOnPublicSuffixes /\ ~isIP(reqHost)) =>
        \A k \in 1..Len(last.acts) :
            LET r == last.cookies[k]
                d == resolvedDomain(r.Domain)
            IN  (/\ Index(d, ".") > 1
                 /\ Char(d, Len(d)) # "."
                 /\ ~allowDomainCookies(d)) =>
                    IF d = reqHost
                    THEN /\ last.acts[k] \in {createCookie, updateCookie}
                         /\ \E c \in Records :
                                /\ c.Name = r.Name
                                /\ c.Domain = reqHost
                                /\ c.HostOnly
                    ELSE last.acts[k] = invalidCookie

\* Domain, Path and Name of a record
Triple(c) == <<c.Domain, c.Path, c.Name>>

\* the triple the received cookie r resolves to when it comes from URL u
resolvedTriple(u, r) ==
    << domainAndType(HostCookieOnIP, DomainCookiesOnPublicSuffixes, host(u), r.Domain).domain,
       cookiePath(defaultPath(u), r), r.Name >>

\* the received cookie asks for a deletion at time now
AsksDelete(r, now) == r.MaxAge < 0 \/ (r.MaxAge = 0 /\ r.Expires # 0 /\ r.Expires < now)

\* the triples a batch of deletions from URL u names
Asked(u, cookies) ==
    {resolvedTriple(u, cookies[k]) :
        k \in {i \in 1..Len(cookies) : Resolves(host(u), cookies[i])}}

\* C11: a received cookie with MaxAge < 0 whose resolved Domain, Path and
\* Name are those of a stored record removes that record and leaves every
\* other record as it is; when no record has the triple the jar is unchanged
C11_DeleteExact ==
    [][(last'.op = "SetCookies" /\ isHTTP(last'.url) /\ ~hostFails(last'.url)) =>
          \A call \in {last'} :
              (\A k \in 1..Len(call.cookies) : AsksDelete(call.cookies[k], clock)) =>
                  \A asked \in {Asked(call.url, call.cookies)} :
                      /\ Records' = {c \in Records : Triple(c) \notin asked}
                      /\ (\A c \in Records : Triple(c) \notin asked) => content' = content]_vars

\* SetCookies deleted a record for a cookie with MaxAge < 0 that had an
\* Expires in the future, and other records are left
C11_Witness ==
    /\ last.op = "SetCookies"
    /\ \E k \in 1..Len(last.acts) :
           /\ last.acts[k] = deleteCookie
           /\ last.cookies[k].MaxAge < 0
           /\ last.cookies[k].Expires > clock
    /\ Records # {}

\* the record with triple t, as a set
RecordOf(t) == {c \in Records : Triple(c) = t}

\* no cookie after the k-th of the last batch resolves to the triple t
LastFor(k, t) ==
    \A j \in (k + 1)..Len(last.cookies) :
        Resolves(reqHost, last.cookies[j]) => resolvedTriple(last.url, last.cookies[j]) # t

SoleFor(u, cookies, k) ==
    \A j \in 1..Len(cookies) :
        (j # k /\ Resolves(host(u), cookies[j])) =>
            resolvedTriple(u, cookies[j]) # resolvedTriple(u, cookies[k])

\* Created of the records in S
CreatedOf(S) == {c.Created : c \in S}

\* C13: Created is set to the current time only when SetCookies first makes
\* the record of a triple; a later SetCookies for the triple that is no
\* deletion leaves Created as it is, whatever the name of the cookie.  (A
\* record that has expired may have given its slot to another cookie: then
\* the record is made anew.)
C13_CreatedOnce ==
    [][(last'.op = "SetCookies" /\ isHTTP(last'.url) /\ ~hostFails(last'.url)) =>
          \A call \in {last'} :
              \A k \in 1..Len(call.cookies) :
                  (/\ Resolves(host(call.url), call.cookies[k])
                   /\ ~AsksDelete(call.cookies[k], clock)
                   /\ SoleFor(call.url, call.cookies, k)) =>
                      \A t \in {resolvedTriple(call.url, call.cookies[k])} :
                          \A old \in {CreatedOf(RecordOf(t))} :
                              CreatedOf(RecordOf(t)') =
                                  IF old = {} THEN {clock}
                                  ELSE IF \E c \in RecordOf(t) : Expired(c, clock)
                                       THEN CreatedOf(RecordOf(t)') \cap (old \cup {clock})
                                       ELSE old]_vars

\* a record without its LastAccess
NoAccess(c) == [c EXCEPT !.LastAccess = 0]

\* the clock when a call is made again: at once, a nanosecond later, after
\* more than a second
Again(now) == {now, now + 1, now + Second + 1}

\* C14: SetCookies(u, [c]) applied twice in succession with the same cookie c
\* that asks for no deletion leaves one record for its triple, with the
\* Created and, apart from LastAccess, the fields it had after the first
\* application
C14_Idempotent ==
    [][(last'.op = "SetCookies" /\ isHTTP(last'.url) /\ ~hostFails(last'.url)) =>
          \A call \in {last'} :
              (/\ Len(call.cookies) = 1
               /\ Resolves(host(call.url), call.cookies[1])) =>
                  \A later \in Again(clock) :
                      (/\ ~AsksDelete(call.cookies[1], clock)
                       /\ ~AsksDelete(call.cookies[1], later)) =>
                          \A twice \in {Stored(boxedStorage,
                                               jarSetCookies(cfg, content', later, call.url,
                                                             call.cookies).store)} :
                              /\ {NoAccess(c) : c \in twice} = {NoAccess(c) : c \in Records'}
                              /\ Cardinality({c \in twice :
                                     Triple(c) = resolvedTriple(call.url, call.cookies[1])}) = 1]_vars

\* the list of http.Cookie that Cookies makes of the cookies it sends
httpCookies(l) == [k \in 1..Len(l) |-> httpCookie(l[k])]

\* C15: a jar with flat storage and a jar with boxed storage that get the
\* same calls with the same flags return the same list from every call of
\* Cookies and the same set of records from All
C15_Interchangeable ==
    /\ panicked = twin.panicked
    /\ ~panicked =>
           /\ last.op = "Cookies" => httpCookies(last.sent) = httpCookies(twin.sent)
           /\ All(boxedStorage, content, clock) = All(FALSE, twin.content, clock)

\* C16: SetCookies, Cookies, Add and Remove read and write the store only
\* while they hold the lock of the jar, so no two of them are at the storage
\* at the same time
C16_Exclusive ==
    /\ \A g \in Inside : mutex = g
    /\ Cardinality(Inside) <= 1

\* the triples the call addresses: those its cookies resolve to, those of the
\* cookies handed to Add, the one Remove names
Addressed(call) ==
    CASE call.op = "SetCookies" ->
             IF isHTTP(call.url) /\ ~hostFails(call.url)
             THEN Asked(call.url, call.cookies) ELSE {}
      [] call.op = "Add" -> {Triple(call.cookies[k]) : k \in 1..Len(call.cookies)}
      [] call.op = "Remove" ->
             {<<Trim(ToLower(call.url.Host), "."), call.url.Path, call.cookies[1].Name>>}
      [] OTHER -> {}

\* the records of S without their LastAccess
Kept(S) == {NoAccess(c) : c \in S}

\* the call was Cookies(u) for an http or https URL with a good host and it
\* returned
AnsweredBy(call, failed) ==
    call.op = "Cookies" /\ isHTTP(call.url) /\ ~hostFails(call.url) /\ ~failed

\* the record is one a request for host h and path p asks for
WantedBy(c, h, p, secure) ==
    /\ DomainMatches(c.Domain, c.HostOnly, h)
    /\ PathMatches(c.Path, p)
    /\ (secure \/ ~c.Secure)

\* C17: a stored session cookie stays in the result of All and of every
\* call of Cookies that it matches, however much time passes and whatever
\* slot is reused or compacted, until SetCookies, Add or Remove addresses its
\* triple
C17_SessionStays ==
    [][\A call \in {last'} :
       \A answered \in {AnsweredBy(call, panicked')} :
       \A h \in {IF answered THEN host(call.url) ELSE ""} :
       \A p \in {IF call.url.Path = "" THEN "/" ELSE call.url.Path} :
       \A live \in {Kept(Live')} :
       \A sent \in {Kept(Returned')} :
          \A c \in {r \in Records : Session(r) /\ Triple(r) \notin Addressed(call)} :
              /\ NoAccess(c) \in live
              /\ (answered /\ WantedBy(c, h, p, isSecure(call.url))) =>
                     NoAccess(c) \in sent]_vars

\* C18: no sequence of calls of SetCookies, Cookies, Add, Remove and All ends
\* in a run-time failure; the worst outcome of a call is a cookie that is not
\* stored
C18_NoFailure == ~panicked

\* C19: every stored cookie has a Path that is not empty and begins with
\* "/", whichever of SetCookies and Add stored it
C19_PathRooted ==
    \A c \in Records : c.Path # "" /\ HasPrefix(c.Path, "/")

\* C20: no stored cookie has a Domain that begins with "."; host or domain
\* cookie is told by HostOnly alone, whichever of SetCookies and Add stored it
C20_DomainBare ==
    \A c \in Records : ~HasPrefix(c.Domain, ".")

\* update for every cookie of the list, one after the other
RECURSIVE updateEach(_, _, _, _, _)
updateEach(store, now, hst, defaultpath, cookies) ==
    IF Len(cookies) = 0 THEN store
    ELSE updateEach(update(cfg, store, now, hst, defaultpath, Head(cookies)).store,
                    now, hst, defaultpath, Tail(cookies))

\* the received cookie is within the limit of max bytes, none when max <= 0
Fits(r, max) == max <= 0 \/ Len(r.Name) + Len(r.Value) <= max

\* C21: with MaxBytesPerCookie > 0 a received cookie whose Name and Value
\* together are longer than MaxBytesPerCookie is skipped: it is not stored and
\* changes or deletes no record; a cookie of exactly MaxBytesPerCookie bytes
\* and the other cookies of the batch are processed as without it; with
\* MaxBytesPerCookie <= 0 no cookie is skipped for its size
C21_SizeCap ==
    [][(last'.op = "SetCookies" /\ isHTTP(last'.url) /\ ~hostFails(last'.url)) =>
          \A call \in {last'} :
              LET fits(r) == Fits(r, MaxBytesPerCookie) IN
              /\ \A k \in 1..Len(call.cookies) :
                     call.acts[k] = "" <=> ~fits(call.cookies[k])
              /\ content' = updateEach(content, clock, host(call.url),
                                       defaultPath(call.url),
                                       SelectSeq(call.cookies, fits))]_vars

\* with a limit of two bytes SetCookies skipped a cookie of three bytes
\* with the triple of a stored record, stored one of two bytes and skipped a
\* deletion of four bytes: the record is as it was
C21_Witness ==
    /\ MaxBytesPerCookie = 2
    /\ last.op = "SetCookies"
    /\ last.acts = <<"", createCookie, "">>
    /\ \E c \in Records : c.Name = "a" /\ c.Value = "1"

\* C22: on a host that is an IP address a cookie without domain attribute
\* is stored as a host cookie; one with a domain attribute is stored only
\* when HostCookieOnIP is set and the attribute is the host itself, and then
\* with HostOnly set; every other domain attribute is rejected and leaves the
\* store as it is
C22_OnIP ==
    [][(last'.op = "SetCookies" /\ isHTTP(last'.url) /\ ~hostFails(last'.url)) =>
          \A call \in {last'} : \A h \in {host(call.url)} : \A after \in {Records'} :
              LET taken(r) == r.Domain = "" \/ (HostCookieOnIP /\ r.Domain = h)
                  path(r)  == cookiePath(defaultPath(call.url), r)
              IN  isIP(h) =>
                  /\ \A k \in 1..Len(call.cookies) :
                         IF taken(call.cookies[k])
                         THEN /\ call.acts[k] # invalidCookie
                              /\ call.acts[k] \in {createCookie, updateCookie} =>
                                     \E c \in after :
                                         /\ Triple(c) = <<h, path(call.cookies[k]),
                                                          call.cookies[k].Name>>
                                         /\ c.HostOnly
                         ELSE call.acts[k] = invalidCookie
                  /\ content' = jarSetCookies(cfg, content, clock, call.url,
                                              SelectSeq(call.cookies, taken)).store]_vars

\* from an IP address SetCookies stored a cookie without domain attribute
\* and one that names the address, and rejected two that name something else
C22_Witness ==
    /\ last.op = "SetCookies"
    /\ isIP(reqHost)
    /\ HostCookieOnIP
    /\ last.acts = <<createCookie, createCookie, createCookie, invalidCookie, invalidCookie>>
    /\ \A c \in Records : c.HostOnly /\ c.Domain = reqHost
    /\ Cardinality(Records) = 3

\* the domain attribute is malformed: with one leading dot stripped it is
\* empty, starts or ends with a dot, or has no dot
Malformed(domainAttr) ==
    \A d \in {IF HasPrefix(domainAttr, ".") THEN Slice(domainAttr, 2, Len(domainAttr))
              ELSE domainAttr} :
        d = "" \/ HasPrefix(d, ".") \/ HasSuffix(d, ".") \/ Index(d, ".") = 0

\* a Domain in lower case with two labels or more and no dot at either end
WellFormed(d) ==
    d = ToLower(d) /\ Len(Split(d)) >= 2 /\ ~HasPrefix(d, ".") /\ ~HasSuffix(d, ".")

\* C23: on a host that is no IP address a domain attribute that, with one
\* leading dot stripped, is empty, starts or ends with a dot or has no dot is
\* rejected; every domain cookie SetCookies stores has a Domain in lower case
\* with at least two labels and no dot at either end; a host of one label
\* stores host cookies only
C23_DomainShape ==
    [][(last'.op = "SetCookies" /\ isHTTP(last'.url) /\ ~hostFails(last'.url)) =>
          \A call \in {last'} : \A h \in {host(call.url)} :
          \A fresh \in {Records' \ Records} :
              ~isIP(h) =>
                  /\ \A k \in 1..Len(call.cookies) :
                         (call.cookies[k].Domain # "" /\ Malformed(call.cookies[k].Domain))
                             => call.acts[k] = invalidCookie
                  /\ \A c \in fresh : ~c.HostOnly => WellFormed(c.Domain)
                  /\ Index(h, ".") = 0 => \A c \in fresh : c.HostOnly /\ c.Domain = h]_vars

\* SetCookies rejected four malformed domain attributes and stored a domain
\* cookie and a host cookie, after a host of one label stored its host cookie
C23_Witness ==
    /\ last.op = "SetCookies"
    /\ last.acts = <<invalidCookie, invalidCookie, invalidCookie, invalidCookie,
                      createCookie, createCookie>>
    /\ \E c \in Records : ~c.HostOnly /\ c.Domain = "b.co.uk" /\ c.Name = "p"
    /\ \E c \in Records : c.HostOnly /\ c.Domain = "uk" /\ c.Name = "t"

\* C24: for a URL whose scheme is neither http nor https SetCookies leaves
\* the jar as it is whatever cookies it is given, and Cookies returns no
\* cookie and changes no LastAccess
C24_NotHTTP ==
    [][\A call \in {last'} :
          (/\ call.op \in {"SetCookies", "Cookies"}
           /\ ToLower(call.url.Scheme) \notin {"http", "https"}) =>
              /\ content' = content
              /\ call.sent = <<>>
              /\ call.acts = <<>>
              /\ panicked' = panicked]_vars

\* Cookies was called for an ftp URL while the jar held a record that is
\* not expired and matches its host and path
C24_Witness ==
    /\ last.op = "Cookies"
    /\ last.url.Scheme = "ftp"
    /\ \E c \in Live : Wanted(c)

\* C25: one call of Cookies sets the LastAccess of the k-th cookie it
\* returns (k = 0, 1, ...) to now + k nanoseconds, in the jar too, so in one
\* returned batch LastAccess grows strictly in the order sent
C25_LastAccess ==
    (last.op = "Cookies" /\ ~panicked) =>
        /\ \A k \in 1..Len(last.sent) :
               /\ last.sent[k].LastAccess = clock + (k - 1)
               /\ last.sent[k] \in Records
        /\ \A j, k \in 1..Len(last.sent) :
               j < k => last.sent[j].LastAccess < last.sent[k].LastAccess

\* Cookies returned two cookies or more, some time after they were stored
C25_Witness ==
    /\ last.op = "Cookies"
    /\ Len(last.sent) >= 2
    /\ \A k \in 1..Len(last.sent) : last.sent[k].Created < clock

C27_AddAsGiven ==
    [][\A call \in {last'} :
          call.op = "Add" =>
              \A after \in {Records'} :
                  LET fresh(c) == ~Expired(c, clock)
                      given == {call.cookies[k] : k \in 1..Len(call.cookies)}
                  IN  /\ \A c \in given :
                             fresh(c) =>
                                 /\ c \in after
                                 /\ \A d \in after : Triple(d) = Triple(c) => d = c
                      /\ content' = jarAdd(cfg, content, clock,
                                           SelectSeq(call.cookies, fresh), 1)]_vars

\* Add was given a cookie with new fields for a stored record and an expired
\* cookie for another: the first is replaced, the second is as it was
C27_Witness ==
    /\ last.op = "Add"
    /\ \E c \in Records : c.Name = "s0" /\ c.Value = "9" /\ c.Created = 2
    /\ \E c \in Records : c.Name = "s1" /\ c.Value = "" /\ c.Expires = 0
    /\ \E k \in 1..Len(last.cookies) :
           last.cookies[k].Name = "s1" /\ Expired(last.cookies[k], clock)

\* C28: Remove(domain, path, name) returns true exactly when a record with
\* the triple of domain in lower case without leading and trailing dots, path
\* and name was stored; afterwards no record has the triple, every other
\* record is as it was, and the same Remove once more returns false
C28_Remove ==
    [][\A call \in {last'} :
          call.op = "Remove" =>
              \A t \in {<<Trim(ToLower(call.url.Host), "."), call.url.Path,
                           call.cookies[1].Name>>} :
              \A after \in {content'} :
                  /\ call.existed <=> \E c \in Records : Triple(c) = t
                  /\ Stored(boxedStorage, after) = {c \in Records : Triple(c) # t}
                  /\ ~jarRemove(cfg, after, call.url.Host, call.url.Path,
                                call.cookies[1].Name).existed]_vars

\* Remove(".B.CO.UK.", "/a/b", "b") returned true and left other records
C28_Witness ==
    /\ last.op = "Remove"
    /\ last.url.Host = ".B.CO.UK."
    /\ last.existed
    /\ Records # {}

\* C29: for every flat and num the number of expired cookies in it,
\* cleanup(num) leaves a flat that holds exactly the cookies of the old one
\* that are not expired, each once, and is num shorter: no cookie that is
\* not expired is lost, none is there twice, no expired one is left
C29_Cleanup ==
    last.op = "cleanup" =>
        \A old \in {last.cookies} :
            LET kept == {k \in 1..Len(old) : ~Expired(old[k], clock)} IN
            /\ {content[k] : k \in 1..Len(content)} = {old[k] : k \in kept}
            /\ \A j, k \in 1..Len(content) : j # k => content[j] # content[k]
            /\ Len(content) = Len(old) - (Len(old) - Cardinality(kept))

\* cleanup was called on a flat of ten cookies of which six were expired,
\* the first and the last among them, and four are left
C29_Witness ==
    /\ last.op = "cleanup"
    /\ Len(last.cookies) = 10
    /\ Expired(last.cookies[1], clock) /\ Expired(last.cookies[10], clock)
    /\ ~Expired(last.cookies[2], clock)
    /\ Len(content) = 4

\* the node of the rule tree that the last k labels of parts lead to from
\* node, read from the right; a node of kind None with no label and no Sub
\* when there is no such node
RECURSIVE RuleAt(_, _, _)
RuleAt(node, parts, k) ==
    IF k = 0 THEN node
    ELSE LET up   == RuleAt(node, parts, k - 1)
             next == {i \in 1..Len(up.Sub) : up.Sub[i].Label = parts[Len(parts) - k + 1]}
         IN  IF next = {} THEN Node("", None, <<>>)
             ELSE up.Sub[CHOOSE i \in next : TRUE]

\* the number of labels of parts that match the rule tree, from the right
Matched(parts) ==
    Greatest({k \in 1..Len(parts) :
                 \A j \in 1..k : RuleAt(PublicSuffixes, parts, j).Label # ""})

\* the last n labels of parts, joined by dots
LastLabels(parts, n) == Join(SubSeq(parts, Len(parts) - n + 1, Len(parts)))

\* C30: EffectiveTLDPlusOne matches the labels of the domain from the right
\* against the rule tree and decides by the kind of the last node matched:
\* normal gives the labels matched and one more, exception the labels
\* matched, wildcard the labels matched and two more, "" when the domain has
\* too few labels; when no rule matches a domain of two labels gives itself,
\* one of more than two its last two and one of one label ""; b.c.cy gives
\* b.c.cy, c.cy gives "" and example.com gives example.com
C30_PlusOne ==
    last.op = "EffectiveTLDPlusOne" =>
        \A domain \in {last.url.Host} : \A parts \in {Split(last.url.Host)} :
        \A k \in {Matched(Split(last.url.Host))} :
            LET kind == RuleAt(PublicSuffixes, parts, k).Kind
                n    == Len(parts)
                want == CASE kind = Normal    -> k + 1
                          [] kind = Exception -> k
                          [] kind = Wildcard  -> k + 2
                          [] OTHER            -> IF n >= 2 THEN 2 ELSE n + 1
            IN  /\ last.sent[1] = IF want > n THEN "" ELSE LastLabels(parts, want)
                /\ domain = "b.c.cy" => last.sent[1] = "b.c.cy"
                /\ domain = "c.cy" => last.sent[1] = ""
                /\ domain = "example.com" => last.sent[1] = "example.com"

\* EffectiveTLDPlusOne was called with a domain of four labels that ends with
\* the labels of a wildcard rule and returned its last three labels
C30_Witness ==
    /\ last.op = "EffectiveTLDPlusOne"
    /\ last.url.Host = "example.b.c.cy"
    /\ last.sent = << "b.c.cy" >>

\* C31: every call of SetCookies, Cookies, Add, Remove and All comes back to
\* its caller with the Mutex not held by the goroutine, whatever the loops of
\* cleanup and findLabel find, and no goroutine that calls a method holds
\* the Mutex already
C31_Terminates ==
    /\ \A g \in Procs : (run[g].pc # "idle") ~> (run[g].pc = "idle" /\ mutex # g)
    /\ [](\A g \in Procs : run[g].pc = "called" => mutex # g)

\* a Cookies call compacted the flat of expired cookies to the one live
\* cookie, and every goroutine is back with the Mutex unlocked
C31_Witness ==
    /\ nops = MaxOps
    /\ mutex = 0
    /\ \A g \in Procs : run[g].pc = "idle"
    /\ ~boxedStorage
    /\ \E live \in 1..(CleanupThreshold + 2) :
           Len(content) = 1 /\ Triple(content[1]) = Triple(Entry(live, FALSE))

\* the default path of RFC 6265 section 5.1.4 for the request path p
DefaultFor(p) ==
    IF p = "" \/ Char(p, 1) # "/" \/ ~\E k \in 2..Len(p) : Char(p, k) = "/" THEN "/"
    ELSE Slice(p, 1, Greatest({k \in 2..Len(p) : Char(p, k) = "/"}) - 1)

\* the Path of a cookie received with the attribute a on the request path p
PathFor(p, a) == IF a # "" /\ Char(a, 1) = "/" THEN a ELSE DefaultFor(p)

\* C32: the Path stored for a received cookie is its Path attribute when
\* that begins with "/", and else the default path of the request URL: "/"
\* when the URL path is empty, does not begin with "/" or has no "/" after
\* its first character, else the URL path up to its last "/" without it;
\* Cookies takes an empty request path for "/"
C32_StoredPath ==
    [][\A call \in {last'} :
          /\ call.op = "SetCookies" =>
                \A k \in 1..Len(call.cookies) :
                    call.acts[k] \in {createCookie, updateCookie} =>
                        \E r \in Stored(boxedStorage, content') :
                            /\ r.Name = call.cookies[k].Name
                            /\ r.Value = call.cookies[k].Value
                            /\ r.Path = PathFor(call.url.Path, call.cookies[k].Path)
          /\ (call.op = "Cookies" /\ call.url.Path = "") =>
                call.sent = jarCookies(cfg, content, clock,
                                       [call.url EXCEPT !.Path = "/"]).sent]_vars

\* a cookie with a Path attribute that is not rooted came from /ab/xy/z/ and
\* is stored with the Path /ab/xy/z, beside one stored with its attribute /x/
C32_Witness ==
    /\ last.op = "SetCookies"
    /\ last.url.Path = "/ab/xy/z/"
    /\ last.cookies[1].Path = "x/y"
    /\ \E r \in Records : r.Value = last.cookies[1].Value /\ r.Path = "/ab/xy/z"
    /\ \E r \in Records : r.Value = "/abc|/x/" /\ r.Path = "/x/"

\* the record c holds what the cookie r, received from host h at time now,
\* resolves to
HoldsReceived(c, r, h, now) ==
    /\ c.Value = r.Value
    /\ c.Secure = r.Secure
    /\ c.HttpOnly = r.HttpOnly
    /\ c.HostOnly = domainAndType(HostCookieOnIP, DomainCookiesOnPublicSuffixes, h, r.Domain).hostOnly
    /\ c.Expires = IF r.MaxAge > 0 THEN now + r.MaxAge * Second ELSE r.Expires

\* C33: when SetCookies comes to a cookie that asks for no deletion and
\* whose triple is that of a record in the jar, the record has afterwards
\* the Value, Secure, HttpOnly, HostOnly and Expires of the received cookie
\* (Secure is cleared by an update without Secure, over plain http as
\* well); of two cookies with one triple in a batch the later one decides
C33_Updated ==
    [][\A call \in {last'} :
          (call.op = "SetCookies" /\ Len(call.acts) = Len(call.cookies)) =>
              \A h \in {host(call.url)} :
              \A k \in 1..Len(call.cookies) :
              \A r \in {call.cookies[k]} :
              \A t \in {resolvedTriple(call.url, r)} :
              \A before \in {Stored(boxedStorage,
                                    jarSetCookies(cfg, content, clock, call.url,
                                                  SubSeq(call.cookies, 1, k - 1)).store)} :
                  ( /\ Resolves(h, r)
                    /\ ~AsksDelete(r, clock)
                    /\ \E c \in before : Triple(c) = t
                    /\ \A j \in (k + 1)..Len(call.cookies) :
                           Resolves(h, call.cookies[j]) =>
                               resolvedTriple(call.url, call.cookies[j]) # t )
                  => /\ call.acts[k] = updateCookie
                     /\ \E c \in Stored(boxedStorage, content') :
                            Triple(c) = t /\ HoldsReceived(c, r, h, clock)]_vars

\* the cookie a, stored earlier with Secure, was sent twice in one batch
\* over plain http: the record has the fields of the second one
C33_Witness ==
    /\ last.op = "SetCookies"
    /\ Len(last.cookies) = 2
    /\ last.acts = << updateCookie, updateCookie >>
    /\ \E c \in Records :
           /\ c.Name = "a" /\ c.Value = "4" /\ c.HttpOnly /\ ~c.Secure /\ c.Expires = 0
           /\ c.Created < clock

\* the record of a cookie r that SetCookies received from URL u at time now
\* and stored anew
Fresh(u, r, now) ==
    [Name |-> r.Name, Value |-> r.Value, Domain |-> resolvedTriple(u, r)[1],
     Path |-> resolvedTriple(u, r)[2],
     Expires |-> IF r.MaxAge > 0 THEN now + r.MaxAge * Second ELSE r.Expires,
     Secure |-> r.Secure, HttpOnly |-> r.HttpOnly,
     HostOnly |-> domainAndType(HostCookieOnIP, DomainCookiesOnPublicSuffixes,
                                host(u), r.Domain).hostOnly,
     Created |-> now, LastAccess |-> now]

\* the flat g is the flat f with the record c in the place of an expired one
InExpiredSlot(f, g, c, now) ==
    \E i \in 1..Len(f) : Expired(f[i], now) /\ g = [f EXCEPT ![i] = c]

\* C34: when a flat jar holds an expired record and a cookie with a triple
\* that is in no record is stored, by SetCookies or by Add, the jar has as
\* many slots as before: the cookie is in the slot of an expired record,
\* and no field of the record is one of the expired cookie
C34_SlotReused ==
    [][\A call \in {last'} :
          (/\ ~boxedStorage
           /\ Len(call.cookies) = 1
           /\ \E c \in Records : Expired(c, clock)) =>
              /\ (/\ call.op = "SetCookies"
                  /\ Len(call.acts) = 1
                  /\ Resolves(host(call.url), call.cookies[1])
                  /\ ~AsksDelete(call.cookies[1], clock)
                  /\ resolvedTriple(call.url, call.cookies[1]) \notin {Triple(c) : c \in Records})
                     => /\ call.acts = << createCookie >>
                        /\ InExpiredSlot(content, content',
                                         Fresh(call.url, call.cookies[1], clock), clock)
              /\ (/\ call.op = "Add"
                  /\ ~Expired(call.cookies[1], clock)
                  /\ Triple(call.cookies[1]) \notin {Triple(c) : c \in Records})
                     => InExpiredSlot(content, content', call.cookies[1], clock)]_vars

\* the cookie n, created after the session cookie y, is in the slot in front
\* of it, where the cookie x was that has expired
C34_Witness ==
    /\ ~boxedStorage
    /\ last.op = "SetCookies"
    /\ last.acts = << createCookie >>
    /\ Len(content) = 2
    /\ content[1] = Fresh(last.url, last.cookies[1], clock)
    /\ content[1].Name = "n"
    /\ content[2].Name = "y"
    /\ content[2].Created < content[1].Created

\* C35: Cookies for a request whose host is an IP address returns only
\* cookies whose Domain is that host: a domain cookie for 3.4 is not sent
\* to the host 1.2.3.4
C35_IPExact ==
    (Answered /\ isIP(reqHost)) =>
        \A s \in Returned :
            \E c \in Records : c.Name = s.Name /\ c.Value = s.Value /\ c.Domain = reqHost

\* the rules below node, whose labels from the root are path: the labels of
\* a rule from left to right, "*" in front for a wildcard rule, and its kind
RECURSIVE RulesUnder(_, _)
RulesUnder(node, path) ==
    UNION {
        LET here == <<node.Sub[i].Label>> \o path
            kind == node.Sub[i].Kind
        IN  (IF kind = None THEN {}
             ELSE {[labels |-> IF kind = Wildcard THEN <<"*">> \o here ELSE here,
                    kind |-> kind]})
            \cup RulesUnder(node.Sub[i], here)
        : i \in 1..Len(node.Sub) }

\* the domain with the labels parts matches the rule with the labels rule
MatchesRule(parts, rule) ==
    /\ Len(rule) <= Len(parts)
    /\ \A i \in 1..Len(rule) :
           rule[Len(rule) - i + 1] \in {"*", parts[Len(parts) - i + 1]}

\* the number of labels of the public suffix of parts: those of the matching
\* exception rule less one, else those of the longest matching rule, else
\* one for the rule "*"
SuffixLabels(tree, parts) ==
    LET matching == {r \in RulesUnder(tree, <<>>) : MatchesRule(parts, r.labels)}
        except   == {r \in matching : r.kind = Exception}
    IN  IF except # {} THEN Greatest({Len(r.labels) : r \in except}) - 1
        ELSE IF matching # {} THEN Greatest({Len(r.labels) : r \in matching})
        ELSE 1

\* the registrable domain by the algorithm of publicsuffix.org
Registrable(tree, parts) ==
    IF Len(parts) > SuffixLabels(tree, parts)
    THEN LastLabels(parts, SuffixLabels(tree, parts) + 1)
    ELSE ""

\* C36: for every rule tree and every domain EffectiveTLDPlusOne returns the
\* registrable domain of the algorithm of publicsuffix.org (the public
\* suffix of the prevailing rule and one more label, "" when the domain has
\* no more label), also when the last node matched is no rule
C36_Registrable ==
    last.op = "EffectiveTLDPlusOne" =>
        last.sent = << Registrable(last.cookies[1], Split(last.url.Host)) >>

\* C37: an expired record counts as removed: when SetCookies comes to a
\* cookie that asks for no deletion and whose triple is that of a record
\* that is still in the storage but has expired, the cookie is created anew
\* and Created is the time of this call
C37_ExpiredAnew ==
    [][\A call \in {last'} :
          (call.op = "SetCookies" /\ Len(call.acts) = Len(call.cookies)) =>
              \A h \in {host(call.url)} :
              \A k \in 1..Len(call.cookies) :
              \A r \in {call.cookies[k]} :
              \A t \in {resolvedTriple(call.url, r)} :
              \A before \in {Stored(boxedStorage,
                                    jarSetCookies(cfg, content, clock, call.url,
                                                  SubSeq(call.cookies, 1, k - 1)).store)} :
                  ( /\ Resolves(h, r)
                    /\ ~AsksDelete(r, clock)
                    /\ \E c \in before : Triple(c) = t /\ Expired(c, clock)
                    /\ \A j \in (k + 1)..Len(call.cookies) :
                           Resolves(h, call.cookies[j]) =>
                               resolvedTriple(call.url, call.cookies[j]) # t )
                  => /\ call.acts[k] = createCookie
                     /\ \E c \in Stored(boxedStorage, content') :
                            Triple(c) = t /\ c.Created = clock]_vars

\* C38: SetCookies and Cookies calls of several goroutines on one jar are
\* atomic to each other: while one is at the storage no other one is, the
\* storage it leaves is the one it found with the whole effect of the call
\* on it, so the calls take effect one after the other, in the order in
\* which they leave, and none sees a part of another
C38_Atomic ==
    [][\A g \in Procs :
          (run[g].pc = "inside" /\ run'[g].pc # "inside") =>
              /\ Inside = {g}
              /\ ~run[g].raced
              /\ run[g].seen = content
              /\ content' = effect(run[g], content).store]_vars

\* Cookies is at a storage that holds cookies while a SetCookies of the
\* other goroutine waits for the Mutex
C38_Witness ==
    /\ \E g \in Procs : \E h \in Procs :
           /\ mutex = g
           /\ run[g].pc = "inside" /\ run[g].op = "Cookies"
           /\ run[h].pc = "called" /\ run[h].op = "SetCookies" /\ isHTTP(run[h].url)
    /\ Records # {}

\* C39: All, called while other goroutines are in SetCookies or Add, returns
\* the cookies of a state between two operations: every cookie it returns
\* is one that a call has stored, with a Name and with all its fields
C39_Snapshot ==
    last.op = "All" =>
        \A c \in last.sent :
            /\ c.Name # ""
            /\ \E j \in SnapshotJobs :
                   /\ j.op # "All"
                   /\ c.Name = j.cookies[1].Name
                   /\ c.Value = j.cookies[1].Value
                   /\ c.Secure = j.cookies[1].Secure
                   /\ c.Created # 0

\* the stored cookie d is the stored cookie c, some calls later
SameCookie(c, d) ==
    /\ SameTriple(d, c.Domain, c.Path, c.Name)
    /\ d.Created = c.Created

\* C40: with every call at a later time than the call before, no call of
\* SetCookies or Cookies lowers the LastAccess of a stored cookie, and the
\* cookies a Cookies call returns have a LastAccess after that of every
\* cookie the Cookies call before it returned
C40_Recency ==
    [][/\ \A c \in Stored(boxedStorage, content) :
            \A d \in Stored(boxedStorage, content') :
                SameCookie(c, d) => d.LastAccess >= c.LastAccess
       /\ (last.op = "Cookies" /\ last'.op = "Cookies") =>
            \A c \in {last.sent[k] : k \in 1..Len(last.sent)} :
                \A d \in {last'.sent[k] : k \in 1..Len(last'.sent)} :
                    d.LastAccess > c.LastAccess]_vars

====
